---- MODULE Spec2Model ----
(***************************************************************************)
(* A model of the pylot example pipeline of ERDOS.                         *)
(*                                                                         *)
(* Part 1: PIDControlOperator (control/pid_control_operator.py).           *)
(*                                                                         *)
(* Numbers.  The code computes in floating point; the model computes in    *)
(* exact fixed point.  Throttle, brake, steer, the PID gains and the PID   *)
(* output are integers in units of 1/Unit (Unit stands for 1.0).  Speeds   *)
(* are whole m/s, time deltas whole seconds, angles whole degrees,         *)
(* brake_strength and steer_gain are in tenths.  Every input set below is  *)
(* chosen so that each product and quotient the code forms is exact in     *)
(* these units (the steering angle in radians is the one rounded value).   *)
(***************************************************************************)
EXTENDS Integers, Sequences, FiniteSets, TLC

VARIABLES
    flags,              \* self._flags: the configuration handle
    pid,                \* self._pid: the longitudinal PID object
    vehicle_transform,  \* self._vehicle_transform
    last_waypoint_msg,  \* self._last_waypoint_msg
    latest_speed,       \* self._latest_speed
    sent,               \* number of messages sent on control_stream
    last_control,       \* the last message sent on control_stream
    can_bus_recv,       \* number of can-bus messages delivered so far
    ev,                 \* the callback that ran last, with its input
    tb_gain,            \* _get_throttle_brake mapping: the PID output fed in
    tb_out,             \* _get_throttle_brake mapping: the result
    box_in,             \* get_2d_bbox_from_3d_box: the arguments of the call
    box_out,            \* get_2d_bbox_from_3d_box: what the call computed
    mul_in,             \* Transform composition: the operands and the point
    mul_out,            \* Transform composition: the two products applied
    tick,               \* on_can_bus_update running on its own thread
    cloud_in,           \* depth_to_local_point_cloud: the depth message
    cloud_out,          \* depth_to_local_point_cloud: the points computed
    agent,              \* ERDOSAgent: its fields and its two threads
    camera_driver,      \* CameraDriverOperator: its fields and the image threads
    carla_op,           \* CarlaLegacyOperator: its fields and its two threads
    setup_in,           \* get_camera_intrinsic_and_transform: the arguments
    setup_out           \* get_camera_intrinsic_and_transform: what the call built

vars == <<flags, pid, vehicle_transform, last_waypoint_msg, latest_speed,
          sent, last_control, can_bus_recv, ev, tb_gain, tb_out,
          box_in, box_out, mul_in, mul_out, tick, cloud_in, cloud_out, agent,
          camera_driver, carla_op, setup_in, setup_out>>

opVars == <<pid, vehicle_transform, last_waypoint_msg, latest_speed,
            sent, last_control, can_bus_recv, ev>>

\* the variables of the depth reconstruction and of the operators of simulation/
restVars == <<cloud_in, cloud_out, agent, camera_driver, carla_op, setup_in, setup_out>>

\* the variables of simulation/utils.py and of ERDOSAgent
utilVars == <<box_in, box_out, mul_in, mul_out, restVars>>

----------------------------------------------------------------------------
(* Representation *)

\* 1.0 in fixed point
Unit == 100 * 1000

\* Python's None
None == [none |-> TRUE]

\* IEEE NaN, the one non-number a steering value can be
NaN == 0 - (1000 * Unit)

IsNaN(v) == v = NaN

Min(a, b) == IF a <= b THEN a ELSE b

Max(a, b) == IF a >= b THEN a ELSE b

Abs(a) == IF a < 0 THEN 0 - a ELSE a

\* no call of simulation/utils.py is under way
\* the operators of simulation/ are not running
SimIdle == camera_driver = None /\ carla_op = None

\* no call of get_camera_intrinsic_and_transform is under way
SetupIdle == setup_in = None /\ setup_out = None

RestIdle == cloud_in = None /\ cloud_out = None /\ agent = None /\ SimIdle /\ SetupIdle

UtilIdle == box_in = None /\ box_out = None /\ mul_in = None /\ mul_out = None /\ RestIdle

Location(x, y, z) == [x |-> x, y |-> y, z |-> z]

Rotation(pitch, yaw, roll) == [pitch |-> pitch, yaw |-> yaw, roll |-> roll]

Transform(location, rotation) == [location |-> location, rotation |-> rotation]

----------------------------------------------------------------------------
(* Bounds and input sets *)

\* can-bus messages delivered in one run
MaxTicks == 3

\* the PID outputs fed to the throttle/brake mapping are k * 0.05, |k| <= MaxGainStep
MaxGainStep == 40

\* forward speeds a can-bus message reports (m/s)
Speeds == {0, 10, 30}

\* target speeds a waypoint message carries (m/s)
TargetSpeeds == {0, 10}

\* vehicle yaw (degrees)
Yaws == {0, 90}

\* seconds between two calls of the PID (time.time() differences)
Dts == {0, 1, 2}

VehicleTransforms ==
    {Transform(Location(0, 0, 0), Rotation(0, yaw, 0)) : yaw \in Yaws}

Waypoint(x, y) == Transform(Location(x, y, 0), Rotation(0, 0, 0))

\* the waypoint lists a plan carries; the first entry is the one steered to
WaypointLists ==
    { <<Waypoint(10, 0)>>,
      <<Waypoint(0, 0), Waypoint(10, 0)>>,
      <<Waypoint(0, 10), Waypoint(10, 0)>>,
      <<Waypoint(10, 10), Waypoint(0, 0 - 10)>> }

WaypointMessages ==
    [target_speed : TargetSpeeds, waypoints : WaypointLists]

\* the can-bus messages that can carry timestamp t
CanBusMessages(t) ==
    [forward_speed : Speeds, transform : VehicleTransforms, timestamp : {t}]

\* flag configurations of the operator runs: default_throttle and throttle_max
\* in 1/Unit, brake_strength and steer_gain in tenths
FlagConfigs ==
    { [default_throttle |-> Unit, throttle_max |-> (3 * Unit) \div 4,
       brake_strength |-> 10, steer_gain |-> 7],
      [default_throttle |-> Unit \div 2, throttle_max |-> Unit,
       brake_strength |-> 10, steer_gain |-> 7],
      [default_throttle |-> Unit \div 2, throttle_max |-> Unit,
       brake_strength |-> 20, steer_gain |-> 3] }

\* longitudinal_control_args: K_P, K_I, K_D in 1/Unit
GainConfigs ==
    { [K_P |-> Unit \div 4, K_I |-> Unit \div 5, K_D |-> 0],
      [K_P |-> Unit \div 4, K_I |-> Unit \div 5, K_D |-> Unit \div 10] }

\* flag configurations of the throttle/brake mapping runs
WideFlagConfigs ==
    [default_throttle : {0, Unit \div 2, Unit},
     throttle_max : {0, (3 * Unit) \div 4, Unit},
     brake_strength : {0, 5, 10, 20},
     steer_gain : {7}]

\* PID outputs fed to the mapping: multiples of 0.05 and the two neighbours of 0.5
PidGains ==
    {k * (Unit \div 20) : k \in (0 - MaxGainStep)..MaxGainStep}
        \cup {Unit \div 2 - Unit \div 100, Unit \div 2 + Unit \div 100}

----------------------------------------------------------------------------
(* pid_controller.pid.PID: an external package; modelled from its use here *)
(* and from the specification's description of the longitudinal loop.      *)

\* PID(p, i, d): gains fixed, target 0, no feedback seen yet
\* (calls counts the calls made on this object: a new object starts at 0)
PID_init(p, i, d) ==
    [Kp |-> p, Ki |-> i, Kd |-> d, target |-> 0, prev_feedback |-> 0, calls |-> 0]

\* pid.target = v
PID_set_target(p, v) == [p EXCEPT !.target = v]

\* pid(feedback): the control value, positive when the feedback is above target.
\* error = target - feedback; proportional, integral (error * dt) and
\* derivative (feedback change / dt, skipped when dt = 0) terms are subtracted.
PID_output(p, feedback, dt) ==
    LET error == p.target - feedback
        prop == p.Kp * error
        int == p.Ki * (error * dt)
        der == IF dt > 0 THEN (p.Kd * (feedback - p.prev_feedback)) \div dt ELSE 0
    IN  0 - prop - int - der

\* the PID object after the call
PID_after(p, feedback) ==
    [p EXCEPT !.prev_feedback = feedback, !.calls = p.calls + 1]

----------------------------------------------------------------------------
(* PIDControlOperator: the pure parts *)

\* ControlMessage(steer, throttle, brake, hand_brake, reverse, timestamp)
ControlMessage(steer, throttle, brake, hand_brake, reverse, timestamp) ==
    [steer |-> steer, throttle |-> throttle, brake |-> brake,
     hand_brake |-> hand_brake, reverse |-> reverse, timestamp |-> timestamp]

\* a changed ThrottleBrake: the throttle is not limited to throttle_max
ThrottleBrake_no_max(fl, pid_gain) ==
    LET throttle == Max(fl.default_throttle - (13 * pid_gain) \div 10, 0)
        brake == IF pid_gain > Unit \div 2
                 THEN Min((((35 * pid_gain) \div 100) * fl.brake_strength) \div 10, Unit)
                 ELSE 0
    IN  <<throttle, brake>>

\* a changed ThrottleBrake: the brake sets in at pid_gain = 0.5 already
ThrottleBrake_brake_at_half(fl, pid_gain) ==
    LET throttle == Min(Max(fl.default_throttle - (13 * pid_gain) \div 10, 0),
                        fl.throttle_max)
        brake == IF pid_gain >= Unit \div 2
                 THEN Min((((35 * pid_gain) \div 100) * fl.brake_strength) \div 10, Unit)
                 ELSE 0
    IN  <<throttle, brake>>

\* lines 99-105 of _get_throttle_brake: the PID output mapped to <<throttle, brake>>
ThrottleBrake(fl, pid_gain) ==
    LET throttle == Min(Max(fl.default_throttle - (13 * pid_gain) \div 10, 0),
                        fl.throttle_max)
        brake == IF pid_gain > Unit \div 2
                 THEN Min((((35 * pid_gain) \div 100) * fl.brake_strength) \div 10, Unit)
                 ELSE 0
    IN  <<throttle, brake>>

\* a changed _get_throttle_brake: a new PID is built for every tick
get_throttle_brake_new_pid(p, fl, speed, target_speed, dt) ==
    LET p1 == PID_set_target(PID_init(p.Kp, p.Ki, p.Kd), target_speed)
        pid_gain == PID_output(p1, speed, dt)
        tb == ThrottleBrake(fl, pid_gain)
    IN  [pid |-> PID_after(p1, speed), pid_gain |-> pid_gain,
         throttle |-> tb[1], brake |-> tb[2]]

\* a changed _get_throttle_brake: the PID's target is not set
get_throttle_brake_stale_target(p, fl, speed, target_speed, dt) ==
    LET pid_gain == PID_output(p, speed, dt)
        tb == ThrottleBrake(fl, pid_gain)
    IN  [pid |-> PID_after(p, speed), pid_gain |-> pid_gain,
         throttle |-> tb[1], brake |-> tb[2]]

\* _get_throttle_brake(target_speed): sets the PID's target, calls the PID once
\* with self._latest_speed and maps its output; dt is the time since the PID's
\* previous call
get_throttle_brake(p, fl, speed, target_speed, dt) ==
    LET p1 == PID_set_target(p, target_speed)
        pid_gain == PID_output(p1, speed, dt)
        tb == ThrottleBrake(fl, pid_gain)
    IN  [pid |-> PID_after(p1, speed), pid_gain |-> pid_gain,
         throttle |-> tb[1], brake |-> tb[2]]

\* a changed Heading: sine and cosine exchanged
Heading_swapped(yaw) ==
    CASE yaw = 0   -> [x |-> 0, y |-> 1, ex |-> 0, ey |-> 0]
      [] yaw = 90  -> [x |-> 1, y |-> 0, ex |-> 0, ey |-> 1]
      [] yaw = 180 -> [x |-> 0, y |-> 0 - 1, ex |-> 1, ey |-> 0]
      [] yaw = 270 -> [x |-> 0 - 1, y |-> 0, ex |-> 0, ey |-> 0 - 1]

\* (cos yaw, sin yaw) as the floating-point code gets it: x and y are the exact
\* values, ex and ey the signs of the rounding residue left where the exact
\* value is 0 (cos(radians(90)) = 6.1e-17, sin(radians(180)) = 1.2e-16)
Heading(yaw) ==
    CASE yaw = 0   -> [x |-> 1, y |-> 0, ex |-> 0, ey |-> 0]
      [] yaw = 90  -> [x |-> 0, y |-> 1, ex |-> 1, ey |-> 0]
      [] yaw = 180 -> [x |-> 0 - 1, y |-> 0, ex |-> 0, ey |-> 1]
      [] yaw = 270 -> [x |-> 0, y |-> 0 - 1, ex |-> 0 - 1, ey |-> 0]

\* math.acos of the normalized dot product, in degrees, for a waypoint vector
\* that makes a multiple of 45 degrees with the heading (dot and cross are the
\* unnormalized products with the unit heading)
AcosDegrees(dot, cross) ==
    CASE cross = 0 /\ dot > 0 -> 0
      [] cross = 0 /\ dot < 0 -> 180
      [] dot = 0 -> 90
      [] Abs(dot) = Abs(cross) /\ dot > 0 -> 45
      [] Abs(dot) = Abs(cross) /\ dot < 0 -> 135

\* degrees to radians in 1/Unit
Radians(deg) == (deg * 314159) \div 180

\* a changed get_steering: the angle is never made negative
get_steering_no_flip(fl, vt, waypoint_transform) ==
    LET wx == waypoint_transform.location.x - vt.location.x
        wy == waypoint_transform.location.y - vt.location.y
        v == Heading(vt.rotation.yaw)
        dot == v.x * wx + v.y * wy
        cross == v.x * wy - v.y * wx
        angle == Radians(AcosDegrees(dot, cross))
        magnitude == (fl.steer_gain * angle) \div 10
    IN  IF wx = 0 /\ wy = 0
        THEN NaN
        ELSE IF magnitude > 0 THEN Min(magnitude, Unit) ELSE Max(magnitude, 0 - Unit)

\* _get_steering(waypoint_transform) with self._vehicle_transform = vt
get_steering(fl, vt, waypoint_transform) ==
    LET wx == waypoint_transform.location.x - vt.location.x
        wy == waypoint_transform.location.y - vt.location.y
        v == Heading(vt.rotation.yaw)
        dot == v.x * wx + v.y * wy
        cross == v.x * wy - v.y * wx
        residue == v.ex * wy - v.ey * wx
        negative == cross < 0 \/ (cross = 0 /\ residue < 0)
        angle == Radians(AcosDegrees(dot, cross))
        magnitude == (fl.steer_gain * angle) \div 10
    IN  IF wx = 0 /\ wy = 0
        THEN NaN    \* 0/0 in the normalization; acos, the product and max keep it
        ELSE IF negative
             THEN Max(0 - magnitude, 0 - Unit)
             ELSE IF magnitude > 0 THEN Min(magnitude, Unit) ELSE Max(magnitude, 0 - Unit)

----------------------------------------------------------------------------
(* PIDControlOperator: construction and the two callbacks *)

\* the truth value of self._last_waypoint_msg
HasPlan(m) == m # None

\* a changed Neutral: the tick starts from the default throttle
Neutral_default_throttle ==
    [throttle |-> flags.default_throttle, brake |-> 0, steer |-> 0]

\* the throttle, brake and steer a tick starts from (lines 160-162)
Neutral == [throttle |-> 0, brake |-> 0, steer |-> 0]

\* a changed TargetWaypoint: the last waypoint of the list
TargetWaypoint_last(m) == m.waypoints[Len(m.waypoints)]

\* the waypoint a tick steers to: waypoints[0] of the retained message
TargetWaypoint(m) == m.waypoints[1]

Init ==
    /\ flags \in FlagConfigs
    /\ \E a \in GainConfigs : pid = PID_init(a.K_P, a.K_I, a.K_D)
    /\ vehicle_transform = None
    /\ last_waypoint_msg = None
    /\ latest_speed = 0
    /\ sent = 0
    /\ last_control = None
    /\ can_bus_recv = 0
    /\ ev = [handler |-> "init"]
    /\ tb_gain = 0
    /\ tb_out = None
    /\ UtilIdle
    /\ tick = None

on_can_bus_update(msg, dt) ==
    /\ can_bus_recv < MaxTicks
    /\ can_bus_recv' = can_bus_recv + 1
    /\ latest_speed' = msg.forward_speed
    /\ vehicle_transform' = msg.transform
    /\ LET plan == HasPlan(last_waypoint_msg)
           tb == IF plan
                 THEN get_throttle_brake(pid, flags, latest_speed',
                                         last_waypoint_msg.target_speed, dt)
                 ELSE [pid |-> pid, pid_gain |-> 0,
                       throttle |-> Neutral.throttle, brake |-> Neutral.brake]
           steer == IF plan
                    THEN get_steering(flags, vehicle_transform',
                                      TargetWaypoint(last_waypoint_msg))
                    ELSE Neutral.steer
       IN  /\ pid' = tb.pid
           /\ last_control' = ControlMessage(steer, tb.throttle, tb.brake,
                                             FALSE, FALSE, msg.timestamp)
           /\ sent' = sent + 1
           /\ ev' = [handler |-> "on_can_bus_update", msg |-> msg,
                     dt |-> IF plan THEN dt ELSE 0,
                     pid_gain |-> tb.pid_gain,
                     steer_calls |-> IF plan THEN 1 ELSE 0,
                     plan_age |-> IF ~plan THEN 0
                                  ELSE IF ev.handler = "on_can_bus_update"
                                       THEN ev.plan_age + 1 ELSE 1]
    /\ UNCHANGED <<flags, last_waypoint_msg, tb_gain, tb_out, utilVars, tick>>

\* a changed on_waypoint: the plan is answered with a neutral command
on_waypoint_sends(msg) ==
    /\ last_waypoint_msg' = msg
    /\ sent' = sent + 1
    /\ last_control' = ControlMessage(0, 0, 0, FALSE, FALSE, can_bus_recv)
    /\ ev' = [handler |-> "on_waypoint", msg |-> msg]
    /\ UNCHANGED <<flags, pid, vehicle_transform, latest_speed,
                   can_bus_recv, tb_gain, tb_out, utilVars, tick>>

on_waypoint(msg) ==
    /\ last_waypoint_msg' = msg
    /\ ev' = [handler |-> "on_waypoint", msg |-> msg]
    /\ UNCHANGED <<flags, pid, vehicle_transform, latest_speed, sent,
                   last_control, can_bus_recv, tb_gain, tb_out, utilVars, tick>>

\* the can-bus stream delivers its messages in timestamp order
CanBus ==
    \E msg \in CanBusMessages(can_bus_recv + 1), dt \in Dts :
        on_can_bus_update(msg, dt)

Waypoints == \E msg \in WaypointMessages : on_waypoint(msg)

Next == CanBus \/ Waypoints

Spec == Init /\ [][Next]_vars

----------------------------------------------------------------------------
(* The throttle/brake mapping on its own, over a wide range of flags and   *)
(* PID outputs                                                              *)

InitTB ==
    /\ flags \in WideFlagConfigs
    /\ tb_gain \in PidGains
    /\ tb_out = None
    /\ pid = PID_init(0, 0, 0)
    /\ vehicle_transform = None
    /\ last_waypoint_msg = None
    /\ latest_speed = 0
    /\ sent = 0
    /\ last_control = None
    /\ can_bus_recv = 0
    /\ ev = [handler |-> "init"]
    /\ UtilIdle
    /\ tick = None

\* apply the mapping to the drawn PID output
TBApply ==
    /\ tb_out = None
    /\ LET tb == ThrottleBrake(flags, tb_gain)
       IN  tb_out' = [throttle |-> tb[1], brake |-> tb[2]]
    /\ UNCHANGED <<flags, tb_gain, opVars, utilVars, tick>>

\* draw the next PID output
TBDraw ==
    /\ tb_out # None
    /\ tb_gain' \in PidGains
    /\ tb_out' = None
    /\ UNCHANGED <<flags, opVars, utilVars, tick>>

NextTB == TBApply \/ TBDraw

SpecTB == InitTB /\ [][NextTB]_vars

----------------------------------------------------------------------------
(* Claims about PIDControlOperator *)

\* the callback that ran last is a can-bus tick
Ticked == ev.handler = "on_can_bus_update"

\* C1: a can-bus update handled before any waypoint message has been received
\* emits steer = 0, throttle = 0, brake = 0, and neither the PID nor the
\* steering computation has run: the PID is as constructed and a message was
\* sent for the update.
C1_NeutralBeforeFirstPlan ==
    (Ticked /\ last_waypoint_msg = None) =>
        /\ sent = can_bus_recv
        /\ last_control.steer = 0
        /\ last_control.throttle = 0
        /\ last_control.brake = 0
        /\ ev.steer_calls = 0
        /\ pid = PID_init(pid.Kp, pid.Ki, pid.Kd)

\* several updates were handled with no plan yet
C1_Witness ==
    Ticked /\ last_waypoint_msg = None /\ can_bus_recv = 2
        /\ ev.msg.forward_speed = 30

C3_CommandFromThisTickAndLastPlan ==
    [][ (ev'.handler = "on_can_bus_update" /\ can_bus_recv' = can_bus_recv + 1
            /\ HasPlan(last_waypoint_msg)) =>
          LET m == ev'.msg
              plan == last_waypoint_msg
              gain == PID_output(PID_set_target(pid, plan.target_speed),
                                 m.forward_speed, ev'.dt)
              tb == ThrottleBrake(flags, gain)
          IN  last_control' =
                  ControlMessage(get_steering(flags, m.transform, plan.waypoints[1]),
                                 tb[1], tb[2], FALSE, FALSE, m.timestamp) ]_vars

\* a tick used a plan that arrived two ticks earlier, with a speed that differs
\* from the one the previous tick reported
C3_Witness ==
    /\ Ticked
    /\ HasPlan(last_waypoint_msg)
    /\ ev.plan_age = 2
    /\ ev.msg.forward_speed = 30
    /\ Len(last_waypoint_msg.waypoints) = 2

\* C4: every emitted command has steer in [-1, 1], throttle in
\* [0, throttle_max] and brake in [0, 1].
C4_CommandInRange ==
    sent > 0 =>
        /\ ~IsNaN(last_control.steer)
        /\ 0 - Unit <= last_control.steer /\ last_control.steer <= Unit
        /\ 0 <= last_control.throttle
        /\ last_control.throttle <= flags.throttle_max
        /\ 0 <= last_control.brake /\ last_control.brake <= Unit

\* a can-bus tick that has a plan is being taken
TickWithPlan ==
    /\ ev'.handler = "on_can_bus_update"
    /\ can_bus_recv' = can_bus_recv + 1
    /\ HasPlan(last_waypoint_msg)

\* C8: the PID object of the constructor serves every tick (its gains never
\* change and its call count only grows); a tick that has a plan sets its target
\* to the plan's target speed and calls it exactly once; on_waypoint and a tick
\* without a plan leave it unchanged.
C8_PidChangedOnlyByTickWithPlan ==
    [][ /\ pid'.Kp = pid.Kp /\ pid'.Ki = pid.Ki /\ pid'.Kd = pid.Kd
        /\ IF TickWithPlan
           THEN /\ pid'.target = last_waypoint_msg.target_speed
                /\ pid'.calls = pid.calls + 1
                /\ pid'.prev_feedback = ev'.msg.forward_speed
           ELSE pid' = pid ]_vars

\* the one PID object has served two ticks, the second with a new target
C8_Witness ==
    /\ Ticked
    /\ HasPlan(last_waypoint_msg)
    /\ pid.calls = 2
    /\ ev.plan_age = 1
    /\ pid.target = 10

\* the derivative term of the PID call of a tick reporting speed is zero: the
\* PID holds nothing from earlier calls that moves its output
NoAccumulatedError(p, speed, dt) ==
    p.Kd = 0 \/ dt = 0 \/ p.prev_feedback = speed

\* the speed is far above the target
FarAbove(speed, target) == speed - target >= 20

Scenario ==
    /\ Ticked
    /\ HasPlan(last_waypoint_msg)
    /\ ev.msg.transform = Transform(Location(0, 0, 0), Rotation(0, 0, 0))
    /\ ev.msg.forward_speed = 0
    /\ last_waypoint_msg.target_speed = 10
    /\ last_waypoint_msg.waypoints[1] = Waypoint(10, 0)

----------------------------------------------------------------------------
(* Claims about the throttle/brake mapping *)

\* default_throttle - 1.3 * pid_gain for the drawn PID output
RawThrottle == flags.default_throttle - (13 * tb_gain) \div 10

\* C5: the throttle is clamp(default_throttle - 1.3 * pid_gain, 0, throttle_max):
\* 0 when the raw value is negative, throttle_max when it exceeds throttle_max,
\* the raw value otherwise.
C5_ThrottleClamped ==
    tb_out # None =>
        tb_out.throttle =
            IF RawThrottle < 0 THEN 0
            ELSE IF RawThrottle > flags.throttle_max THEN flags.throttle_max
            ELSE RawThrottle

\* the upper limit acted: the raw value exceeded a positive throttle_max
C5_Witness ==
    /\ tb_out # None
    /\ RawThrottle > flags.throttle_max
    /\ flags.throttle_max > 0
    /\ tb_out.throttle = flags.throttle_max

\* C6: brake = min(0.35 * pid_gain * brake_strength, 1) when pid_gain > 0.5 and
\* brake = 0 when pid_gain <= 0.5, the value 0.5 included.
C6_BrakeAboveHalf ==
    tb_out # None =>
        tb_out.brake =
            IF 2 * tb_gain > Unit
            THEN Min((35 * tb_gain * flags.brake_strength) \div 1000, Unit)
            ELSE 0

\* the boundary: a PID output of exactly 0.5 with a positive brake_strength
C6_Witness ==
    /\ tb_out # None
    /\ 2 * tb_gain = Unit
    /\ flags.brake_strength > 0
    /\ tb_out.brake = 0

\* C7: no command has both throttle > 0 and brake > 0, whatever
\* default_throttle, throttle_max and brake_strength are.
C7_NeverThrottleAndBrake ==
    tb_out # None => ~(tb_out.throttle > 0 /\ tb_out.brake > 0)

----------------------------------------------------------------------------
(* Degenerate input and configuration errors of PIDControlOperator *)

\* the tick that ran last had a plan whose first waypoint lies at the (x, y)
\* the can-bus message reports for the vehicle
ZeroDistanceTick ==
    /\ Ticked
    /\ HasPlan(last_waypoint_msg)
    /\ TargetWaypoint(last_waypoint_msg).location.x = ev.msg.transform.location.x
    /\ TargetWaypoint(last_waypoint_msg).location.y = ev.msg.transform.location.y

\* C11: when the waypoint's (x, y) equals the vehicle's (x, y), _get_steering
\* signals an invalid input instead of returning a steering value, so the tick
\* ends without a command: the can-bus update is counted, no message is sent
\* for it.
C11_ZeroDistanceFailsLoudly ==
    ZeroDistanceTick => sent < can_bus_recv

\* longitudinal_control_args with a zero or a negative gain
NonPositiveGainConfigs ==
    { [K_P |-> 0, K_I |-> Unit \div 5, K_D |-> Unit \div 10],
      [K_P |-> Unit \div 4, K_I |-> 0 - Unit \div 5, K_D |-> Unit \div 10],
      [K_P |-> 0 - Unit \div 4, K_I |-> Unit \div 5, K_D |-> 0 - Unit \div 10] }

\* __init__ called with a zero or a negative gain in longitudinal_control_args:
\* the constructor passes K_P, K_I and K_D to PID(...) as they are
InitNonPositiveGains ==
    /\ flags = [default_throttle |-> Unit \div 2, throttle_max |-> Unit,
                brake_strength |-> 10, steer_gain |-> 7]
    /\ \E a \in NonPositiveGainConfigs : pid = PID_init(a.K_P, a.K_I, a.K_D)
    /\ vehicle_transform = None
    /\ last_waypoint_msg = None
    /\ latest_speed = 0
    /\ sent = 0
    /\ last_control = None
    /\ can_bus_recv = 0
    /\ ev = [handler |-> "init"]
    /\ tb_gain = 0
    /\ tb_out = None
    /\ UtilIdle
    /\ tick = None

SpecNonPositiveGains == InitNonPositiveGains /\ [][Next]_vars

\* the operator holds a zero or a negative PID gain
NonPositiveGain == pid.Kp <= 0 \/ pid.Ki <= 0 \/ pid.Kd <= 0

\* C12: an operator constructed with a zero or negative K_P, K_I or K_D never
\* processes a tick: no can-bus update is handled and no command is sent by an
\* operator that holds such a gain.
C12_NonPositiveGainsRejected ==
    NonPositiveGain => (can_bus_recv = 0 /\ sent = 0)

----------------------------------------------------------------------------
(* Part 2: simulation/utils.py, the camera projector.                      *)
(*                                                                         *)
(* Numbers.  Image coordinates are integers in units of 1/Px pixel, depths *)
(* and the depth buffer's values (depth_array[y][x] * 1000) whole metres;  *)
(* a box (xmin, xmax, ymin, ymax) is in whole pixels, as int() leaves it.  *)
(* The thresholds 0.8, 0.4, 0.01, 0.02 and 0.0004 are compared exactly.    *)

\* one pixel in the fixed point of image coordinates
Px == 20

\* the 0.8 pixels of the "too close" test of get_bounding_box_from_corners
TooClose == (8 * Px) \div 10

\* int(v) of an image coordinate: truncation toward zero, to whole pixels
IntTrunc(v) == IF v >= 0 THEN v \div Px ELSE 0 - ((0 - v) \div Px)

\* inside_image(x, y, img_width, img_height)
inside_image(x, y, img_width, img_height) ==
    x >= 0 /\ y >= 0 /\ x < img_width * Px /\ y < img_height * Px

\* depth_array[y][x] * 1000 for whole pixels x, y: the buffer shows depth fg
\* left of column split and depth bg from that column on
DepthAt(depth_array, y, x) ==
    IF x < depth_array.split THEN depth_array.fg ELSE depth_array.bg

\* have_same_depth(x, y, z, depth_array, threshold)
have_same_depth(x, y, z, depth_array, threshold) ==
    Abs(DepthAt(depth_array, IntTrunc(y), IntTrunc(x)) - z) < threshold

\* a changed KeepCorner: the depth of the corner is not looked at
KeepCorner_any_depth(loc_2d, image_width, image_height) ==
    /\ (loc_2d.x >= 0 \/ loc_2d.y >= 0)
    /\ (loc_2d.x < image_width * Px \/ loc_2d.y < image_height * Px)

\* lines 341-342 of map_ground_bounding_box_to_2D: the corner is in front of
\* the camera and passes the either-coordinate test
KeepCorner(loc_2d, image_width, image_height) ==
    /\ loc_2d.z > 0
    /\ (loc_2d.x >= 0 \/ loc_2d.y >= 0)
    /\ (loc_2d.x < image_width * Px \/ loc_2d.y < image_height * Px)

\* lines 323-345 of map_ground_bounding_box_to_2D: coords, the kept corners in
\* the order of the vertices
RECURSIVE VisibleCorners(_, _)
VisibleCorners(locs, rgb_img_size) ==
    IF locs = <<>>
    THEN <<>>
    ELSE LET rest == VisibleCorners(Tail(locs), rgb_img_size)
         IN  IF KeepCorner(Head(locs), rgb_img_size[1], rgb_img_size[2])
             THEN <<Head(locs)>> \o rest
             ELSE rest

\* a changed ScanPair: a pair is skipped only when both separations are small
ScanPair_skip_if_both(a, b, best) ==
    IF Abs(a.x - b.x) <= TooClose /\ Abs(a.y - b.y) <= TooClose
    THEN best
    ELSE LET distance == (b.x - a.x) * (b.x - a.x) + (b.y - a.y) * (b.y - a.y)
         IN  IF distance > best[1]
             THEN <<distance, IF a.x < b.x /\ a.y < b.y THEN [a |-> a, b |-> b]
                              ELSE [a |-> b, b |-> a]>>
             ELSE best

\* one step of the loop of get_bounding_box_from_corners over the pair (a, b):
\* the new <<max_distance, opp_ends>>
ScanPair(a, b, best) ==
    IF Abs(a.x - b.x) <= TooClose \/ Abs(a.y - b.y) <= TooClose
    THEN best
    ELSE LET distance == (b.x - a.x) * (b.x - a.x) + (b.y - a.y) * (b.y - a.y)
         IN  IF distance > best[1]
             THEN <<distance, IF a.x < b.x /\ a.y < b.y THEN [a |-> a, b |-> b]
                              ELSE [a |-> b, b |-> a]>>
             ELSE best

\* the loop over combinations(corners, r=2), from pair (i, j) on, in the order
\* (1,2), (1,3), ..., (2,3), ...
RECURSIVE ScanFrom(_, _, _, _)
ScanFrom(corners, i, j, best) ==
    IF i >= Len(corners)
    THEN best
    ELSE IF j > Len(corners)
         THEN ScanFrom(corners, i + 1, i + 2, best)
         ELSE ScanFrom(corners, i, j + 1, ScanPair(corners[i], corners[j], best))

\* get_bounding_box_from_corners(corners): opp_ends, None or the pair of corners
\* (a, b) as the record [a |-> a, b |-> b]
get_bounding_box_from_corners(corners) ==
    ScanFrom(corners, 1, 2, <<0, None>>)[2]

\* a changed get_bounding_box_sampling_points: the depth is the first corner's
get_bounding_box_sampling_points_first_depth(ends) ==
    LET a == ends.a
        b == ends.b
        middle_point == [x |-> (a.x + b.x) \div 2, y |-> (a.y + b.y) \div 2, z |-> a.z]
        at(dx, dy) == [x |-> middle_point.x + dx * Px, y |-> middle_point.y + dy * Px,
                       z |-> middle_point.z]
    IN  <<middle_point,
          <<middle_point, at(2, 0), at(1, 1), at(1, 0 - 1),
            at(0 - 2, 0), at(0 - 1, 1), at(0 - 1, 0 - 1)>> >>

\* get_bounding_box_sampling_points(ends): (middle_point, sampling_points)
get_bounding_box_sampling_points(ends) ==
    LET a == ends.a
        b == ends.b
        middle_point == [x |-> (a.x + b.x) \div 2, y |-> (a.y + b.y) \div 2, z |-> b.z]
        at(dx, dy) == [x |-> middle_point.x + dx * Px, y |-> middle_point.y + dy * Px,
                       z |-> middle_point.z]
    IN  <<middle_point,
          <<middle_point, at(2, 0), at(1, 1), at(1, 0 - 1),
            at(0 - 2, 0), at(0 - 1, 1), at(0 - 1, 0 - 1)>> >>

\* a changed select_max_bbox: the first corner is taken as the minimum
select_max_bbox_in_order(ends) ==
    [xmin |-> IntTrunc(ends.a.x), xmax |-> IntTrunc(ends.b.x),
     ymin |-> IntTrunc(ends.a.y), ymax |-> IntTrunc(ends.b.y)]

\* select_max_bbox(ends): (xmin, xmax, ymin, ymax)
select_max_bbox(ends) ==
    LET corner == <<IntTrunc(ends.b.x), IntTrunc(ends.b.y)>>
    IN  [xmin |-> Min(IntTrunc(ends.a.x), corner[1]),
         xmax |-> Max(IntTrunc(ends.a.x), corner[1]),
         ymin |-> Min(IntTrunc(ends.a.y), corner[2]),
         ymax |-> Max(IntTrunc(ends.a.y), corner[2])]

\* a changed LargeEnough: the thresholds themselves are accepted
LargeEnough_or_equal(width, height, rgb_img_size) ==
    /\ 100 * width >= rgb_img_size[1]
    /\ 100 * height >= 2 * rgb_img_size[2]
    /\ 2500 * (width * height) >= rgb_img_size[1] * rgb_img_size[2]

\* lines 232-234 and 262-264: width > 0.01 * image width, height > 0.02 * image
\* height and width * height > 0.0004 * image width * image height
LargeEnough(width, height, rgb_img_size) ==
    /\ 100 * width > rgb_img_size[1]
    /\ 100 * height > 2 * rgb_img_size[2]
    /\ 2500 * (width * height) > rgb_img_size[1] * rgb_img_size[2]

\* lines 225-235 and 253-265: the box of the pair, None when it is too small
SizedBox(ends, rgb_img_size) ==
    LET box == select_max_bbox(ends)
    IN  IF LargeEnough(box.xmax - box.xmin, box.ymax - box.ymin, rgb_img_size)
        THEN box
        ELSE None

\* a changed MiddleGate: the depth must be closer than the threshold less one
MiddleGate_closer(middle_point, depth_array, rgb_img_size, middle_depth_threshold) ==
    /\ inside_image(middle_point.x, middle_point.y, rgb_img_size[1], rgb_img_size[2])
    /\ have_same_depth(middle_point.x, middle_point.y, middle_point.z,
                       depth_array, middle_depth_threshold - 1)

\* lines 218-224: the middle point is inside the frame and has the same depth
MiddleGate(middle_point, depth_array, rgb_img_size, middle_depth_threshold) ==
    /\ inside_image(middle_point.x, middle_point.y, rgb_img_size[1], rgb_img_size[2])
    /\ have_same_depth(middle_point.x, middle_point.y, middle_point.z,
                       depth_array, middle_depth_threshold)

\* the entry depth_array[int(y)][int(x)] that have_same_depth reads for a point
DepthIndex(p) == [row |-> IntTrunc(p.y), col |-> IntTrunc(p.x)]

\* line 218-224: the entries read for the middle point; `and` evaluates
\* have_same_depth only when inside_image holds
MiddleReads(middle_point, rgb_img_size) ==
    IF inside_image(middle_point.x, middle_point.y, rgb_img_size[1], rgb_img_size[2])
    THEN {DepthIndex(middle_point)}
    ELSE {}

\* a changed PointsInsideImage: the points are not filtered
PointsInsideImage_all(points, rgb_img_size) == points

\* lines 242-246: points_inside_image
PointsInsideImage(points, rgb_img_size) ==
    SelectSeq(points, LAMBDA p : inside_image(p.x, p.y, rgb_img_size[1], rgb_img_size[2]))

\* lines 247-250: same_depth_points.count(True)
SameDepthCount(points_inside_image, depth_array, neighbor_threshold) ==
    Len(SelectSeq(points_inside_image,
                  LAMBDA p : have_same_depth(p.x, p.y, p.z, depth_array,
                                             neighbor_threshold)))

\* a changed EnoughNeighbours: no test of len(same_depth_points) > 0
EnoughNeighbours_no_guard(n, count) == 10 * count >= 4 * n

\* a changed EnoughNeighbours: more than 40% of the samples must match
EnoughNeighbours_strict(n, count) == n > 0 /\ 10 * count > 4 * n

\* lines 251-252: len(same_depth_points) > 0 and count(True) >= 0.4 * len
EnoughNeighbours(n, count) == n > 0 /\ 10 * count >= 4 * n

\* lines 212-265 of get_2d_bbox_from_3d_box, on the corners that
\* map_ground_bounding_box_to_2D returned: the values the call computes on its
\* way, the entries of the depth buffer it reads, and its result box (None
\* when the function falls off its end)
BoxOfCorners(corners, depth_array, rgb_img_size, middle_depth_threshold, neighbor_threshold) ==
    LET ends == IF Len(corners) = 8 THEN get_bounding_box_from_corners(corners)
                ELSE None
        mp == IF ends # None THEN get_bounding_box_sampling_points(ends)
              ELSE <<None, <<>> >>
        gate == ends # None /\ MiddleGate(mp[1], depth_array, rgb_img_size,
                                          middle_depth_threshold)
        inside == IF ends # None /\ ~gate
                  THEN PointsInsideImage(mp[2], rgb_img_size) ELSE <<>>
        count == SameDepthCount(inside, depth_array, neighbor_threshold)
        reads == (IF ends # None THEN MiddleReads(mp[1], rgb_img_size) ELSE {})
                     \cup {DepthIndex(inside[k]) : k \in 1..Len(inside)}
    IN  [corners |-> corners, ends |-> ends, middle_point |-> mp[1],
         gate |-> gate, n |-> Len(inside), count |-> count, reads |-> reads,
         box |-> IF ends = None THEN None
                 ELSE IF gate THEN SizedBox(ends, rgb_img_size)
                 ELSE IF EnoughNeighbours(Len(inside), count)
                      THEN SizedBox(ends, rgb_img_size)
                      ELSE None]

----------------------------------------------------------------------------
(* get_2d_bbox_from_3d_box on drawn projections: the eight loc_2d values   *)
(* of the loop of map_ground_bounding_box_to_2D are the input              *)

\* rgb_img_size: (image_width, image_height)
ImageSize == <<800, 600>>

\* middle_depth_threshold and neighbor_threshold of the call (metres)
MiddleDepthThreshold == 3

NeighborThreshold == 5

\* the four projected corners of one face of a box: an axis-parallel rectangle
\* with corner (x, y), width w and height h (1/Px pixels) at depth z
FaceAt(x, y, w, h, z) ==
    << [x |-> x, y |-> y, z |-> z], [x |-> x + w, y |-> y, z |-> z],
       [x |-> x, y |-> y + h, z |-> z], [x |-> x + w, y |-> y + h, z |-> z] >>

\* left and top edges of the first face: left of / above the image, well inside
\* it, and near its lower edge
FaceXs == {0 - (11 * Px) \div 2, 100 * Px}

FaceYs == {0 - (11 * Px) \div 2, 200 * Px, 593 * Px}

\* widths and heights of the first face: 0.8 and 0.9 pixels, and the sizes on
\* both sides of the three size thresholds of an 800 x 600 image
FaceWidths == {TooClose, TooClose + 2, 8 * Px, 9 * Px, 100 * Px}

FaceHeights == {TooClose, 12 * Px, 13 * Px, 21 * Px, 22 * Px, 30 * Px}

\* depth of the first face: on the camera plane or in front of it
FaceDepths == {0, 10}

\* the second face of a box whose first face is FaceAt(x, y, w, h, z): nested
\* in the first, a small square near its corner, behind the camera, or
\* displaced up-right or down-right
SecondFaces(x, y, w, h, z) ==
    { FaceAt(x, y, w \div 2, h \div 2, z + 2),
      FaceAt(x + 2 * Px, y + 2 * Px, 2 * Px, 2 * Px, z + 2),
      FaceAt(x, y, w, h, 0 - 1),
      FaceAt(x + w, y - h, w, h, z + 2),
      FaceAt(x + w, y + h, w, h, z + 2) }

\* the lists of eight loc_2d values
CornerLists ==
    UNION { { FaceAt(x, y, w, h, z) \o f : f \in SecondFaces(x, y, w, h, z) } :
            x \in FaceXs, y \in FaceYs, w \in FaceWidths, h \in FaceHeights,
            z \in FaceDepths }

\* the depth buffers: depth fg left of a column near the middle of the wide
\* faces and the far depth bg right of it, or one depth all over
DepthArrays ==
    { [fg |-> f, bg |-> 100, split |-> s] : f \in {10, 14}, s \in {149, 150, 151} }
        \cup { [fg |-> f, bg |-> 100, split |-> ImageSize[1]] : f \in {2, 13, 15} }
        \cup { [fg |-> 10, bg |-> 100, split |-> 0] }

\* PIDControlOperator is not part of the runs of simulation/utils.py
ControllerIdle ==
    /\ flags = [default_throttle |-> Unit \div 2, throttle_max |-> Unit,
                brake_strength |-> 10, steer_gain |-> 7]
    /\ pid = PID_init(0, 0, 0)
    /\ vehicle_transform = None
    /\ last_waypoint_msg = None
    /\ latest_speed = 0
    /\ sent = 0
    /\ last_control = None
    /\ can_bus_recv = 0
    /\ ev = [handler |-> "init"]
    /\ tb_gain = 0
    /\ tb_out = None
    /\ tick = None

InitBBox ==
    /\ box_in \in [locs : CornerLists, depth_array : DepthArrays,
                   rgb_img_size : {ImageSize},
                   middle_depth_threshold : {MiddleDepthThreshold},
                   neighbor_threshold : {NeighborThreshold}]
    /\ box_out = None
    /\ mul_in = None
    /\ mul_out = None
    /\ ControllerIdle
    /\ RestIdle

\* the call: the per-corner filter, then lines 212-265
BBoxApply ==
    /\ box_out = None
    /\ box_out' = BoxOfCorners(VisibleCorners(box_in.locs, box_in.rgb_img_size),
                               box_in.depth_array, box_in.rgb_img_size,
                               box_in.middle_depth_threshold,
                               box_in.neighbor_threshold)
    /\ UNCHANGED <<flags, tb_gain, tb_out, opVars, box_in, mul_in, mul_out, tick, restVars>>

NextBBox == BBoxApply

SpecBBox == InitBBox /\ [][NextBBox]_vars

----------------------------------------------------------------------------
(* Claims about get_2d_bbox_from_3d_box and its helpers *)

\* the call has returned
BBoxDone == box_out # None /\ box_in # None

\* C13: get_2d_bbox_from_3d_box returns no box whenever fewer than 8 projected
\* corners survive the per-corner filter of map_ground_bounding_box_to_2D, and
\* an object whose 8 corners all have projected depth <= 0 yields no box
\* whatever the depth buffer holds.
C13_FewerThanEightNoBox ==
    BBoxDone =>
        /\ Len(box_out.corners) < 8 => box_out.box = None
        /\ (\E i \in 1..8 : box_in.locs[i].z <= 0) => box_out.box = None
        /\ (\A i \in 1..8 : box_in.locs[i].z <= 0) =>
               (box_out.corners = <<>> /\ box_out.box = None)

\* seven corners survive: all eight are in front of the camera, one lies left
\* of and above the image; the depth buffer shows the corners' depth there
C13_Witness ==
    /\ BBoxDone
    /\ Len(box_out.corners) = 7
    /\ \A i \in 1..8 : box_in.locs[i].z > 0
    /\ box_in.depth_array.fg = 10
    /\ box_in.depth_array.split = 151
    /\ box_out.box = None

\* the pair (a, b) passes the "too close" test
Qualifies(a, b) == Abs(a.x - b.x) > TooClose /\ Abs(a.y - b.y) > TooClose

\* squared 2-D distance
Dist2(a, b) == (b.x - a.x) * (b.x - a.x) + (b.y - a.y) * (b.y - a.y)

\* the unordered pairs of positions of a list of n corners
PairsOf(n) == {p \in (1..n) \X (1..n) : p[1] < p[2]}

\* C14: get_bounding_box_from_corners returns no pair exactly when no pair of
\* corners has both |dx| > 0.8 and |dy| > 0.8; otherwise it returns a pair of
\* the list that qualifies and whose squared distance is maximal among the
\* qualifying pairs, whatever the distances of the non-qualifying pairs.
C14_FarthestQualifyingPair ==
    (BBoxDone /\ Len(box_out.corners) = 8) =>
        LET c == box_out.corners
            e == box_out.ends
            Q == {p \in PairsOf(8) : Qualifies(c[p[1]], c[p[2]])}
        IN  /\ (e = None) <=> (Q = {})
            /\ e # None =>
                   /\ \E p \in Q : {e.a, e.b} = {c[p[1]], c[p[2]]}
                   /\ \A q \in Q : Dist2(c[q[1]], c[q[2]]) <= Dist2(e.a, e.b)

\* a pair is returned although the two corners farthest apart do not qualify
C14_Witness ==
    /\ BBoxDone
    /\ Len(box_out.corners) = 8
    /\ box_out.ends # None
    /\ \E p \in PairsOf(8) :
           /\ ~Qualifies(box_out.corners[p[1]], box_out.corners[p[2]])
           /\ Dist2(box_out.corners[p[1]], box_out.corners[p[2]])
                  > Dist2(box_out.ends.a, box_out.ends.b)

\* a box was returned
BoxReturned == BBoxDone /\ box_out.box # None

\* C15: every returned box, from the middle-point branch or from the
\* neighbour-sample branch, has width > 1% of the image width, height > 2% of
\* the image height and width * height > 0.04% of the image area.
C15_ReturnedBoxLargeEnough ==
    BoxReturned =>
        LET width == box_out.box.xmax - box_out.box.xmin
            height == box_out.box.ymax - box_out.box.ymin
        IN  /\ 100 * width > box_in.rgb_img_size[1]
            /\ 100 * height > 2 * box_in.rgb_img_size[2]
            /\ 10000 * (width * height)
                   > 4 * (box_in.rgb_img_size[1] * box_in.rgb_img_size[2])

\* the depth check of the middle point passes and the pair's box is wide and
\* high enough, yet its area is too small: no box
C15_Witness ==
    /\ BBoxDone
    /\ box_out.gate
    /\ box_out.box = None
    /\ LET width == IntTrunc(box_out.ends.b.x) - IntTrunc(box_out.ends.a.x)
           height == IntTrunc(box_out.ends.b.y) - IntTrunc(box_out.ends.a.y)
       IN  /\ 100 * width > box_in.rgb_img_size[1]
           /\ 100 * height > 2 * box_in.rgb_img_size[2]
           /\ 10000 * (width * height)
                  <= 4 * (box_in.rgb_img_size[1] * box_in.rgb_img_size[2])

\* t is the coordinate v (1/Px pixels) truncated toward zero to whole pixels
IsTruncation(t, v) ==
    /\ Abs(t) * Px <= Abs(v)
    /\ Abs(v) - Abs(t) * Px < Px
    /\ t * v >= 0

\* C16: a returned box is computed from the two selected corners only: xmin and
\* xmax are the smaller and the larger of the two corners' truncated x, ymin
\* and ymax of their truncated y, so xmin <= xmax and ymin <= ymax whatever the
\* order of the pair.
C16_BoxFromSelectedPair ==
    BoxReturned =>
        LET b == box_out.box
            e == box_out.ends
        IN  /\ \E p \in {<<e.a, e.b>>, <<e.b, e.a>>} :
                   IsTruncation(b.xmin, p[1].x) /\ IsTruncation(b.xmax, p[2].x)
            /\ \E p \in {<<e.a, e.b>>, <<e.b, e.a>>} :
                   IsTruncation(b.ymin, p[1].y) /\ IsTruncation(b.ymax, p[2].y)
            /\ b.xmin <= b.xmax
            /\ b.ymin <= b.ymax
            /\ b = select_max_bbox([a |-> e.b, b |-> e.a])

\* a box is returned for a pair whose first corner has the larger x, and one
\* corner lies left of the image
C16_Witness ==
    /\ BoxReturned
    /\ box_out.ends.a.x > box_out.ends.b.x
    /\ box_out.ends.b.x < 0
    /\ box_out.box.xmin < 0

\* C17: when the middle-point gate fails (the middle point is outside the
\* image, or its depth differs from the depth buffer by middle_depth_threshold
\* or more), a box is returned only if the matching samples are at least 40% of
\* the N > 0 in-image samples tested with neighbor_threshold, and with a pair
\* large enough it is returned then, equality included; in every other case the
\* result is the value None.
C17_NeighbourBranch ==
    (BBoxDone /\ box_out.ends # None) =>
        LET mp == box_out.middle_point
            inside == inside_image(mp.x, mp.y, box_in.rgb_img_size[1],
                                   box_in.rgb_img_size[2])
            differs == Abs(DepthAt(box_in.depth_array, IntTrunc(mp.y), IntTrunc(mp.x))
                           - mp.z) >= box_in.middle_depth_threshold
            sized == select_max_bbox(box_out.ends)
            large == LargeEnough(sized.xmax - sized.xmin, sized.ymax - sized.ymin,
                                 box_in.rgb_img_size)
        IN  /\ box_out.gate <=> (inside /\ ~differs)
            /\ ~box_out.gate =>
                   /\ box_out.n \in 0..7
                   /\ box_out.count \in 0..box_out.n
                   /\ box_out.box # None <=>
                          (box_out.n > 0 /\ 10 * box_out.count >= 4 * box_out.n /\ large)

\* the gate fails on the depth of the middle point; 2 of the 5 in-image samples
\* match, exactly 40%, and the box is returned
C17_Witness ==
    /\ BoxReturned
    /\ ~box_out.gate
    /\ box_out.n = 5
    /\ box_out.count = 2

----------------------------------------------------------------------------
(* Part 3: PIDControlOperator with on_waypoint and on_can_bus_update on    *)
(* different threads.  The class holds no lock, so on_waypoint can run     *)
(* between any two statements of on_can_bus_update; a statement that reads *)
(* self._last_waypoint_msg sees the message stored at that moment.         *)

\* can-bus messages delivered in one run of the two threads
MaxThreadTicks == 1

InitThreads ==
    /\ flags = [default_throttle |-> Unit \div 2, throttle_max |-> Unit,
                brake_strength |-> 10, steer_gain |-> 7]
    /\ pid = PID_init(Unit \div 4, Unit \div 5, Unit \div 10)
    /\ vehicle_transform = None
    /\ last_waypoint_msg = None
    /\ latest_speed = 0
    /\ sent = 0
    /\ last_control = None
    /\ can_bus_recv = 0
    /\ ev = [handler |-> "init"]
    /\ tb_gain = 0
    /\ tb_out = None
    /\ UtilIdle
    /\ tick = None

\* lines 158-163: the tick stores the speed and the transform, sets its three
\* values to neutral and tests self._last_waypoint_msg
TickStart(msg) ==
    /\ tick = None
    /\ can_bus_recv < MaxThreadTicks
    /\ can_bus_recv' = can_bus_recv + 1
    /\ latest_speed' = msg.forward_speed
    /\ vehicle_transform' = msg.transform
    /\ tick' = [pc |-> IF HasPlan(last_waypoint_msg) THEN "throttle_brake" ELSE "send",
                msg |-> msg, throttle |-> Neutral.throttle, brake |-> Neutral.brake,
                steer |-> Neutral.steer, speed_from |-> None, steer_from |-> None]
    /\ UNCHANGED <<flags, pid, last_waypoint_msg, sent, last_control, ev,
                   tb_gain, tb_out, utilVars>>

\* lines 164-165: self._last_waypoint_msg.target_speed is read and
\* _get_throttle_brake called with it
TickThrottleBrake(dt) ==
    /\ tick # None
    /\ tick.pc = "throttle_brake"
    /\ LET tb == get_throttle_brake(pid, flags, latest_speed,
                                    last_waypoint_msg.target_speed, dt)
       IN  /\ pid' = tb.pid
           /\ tick' = [tick EXCEPT !.pc = "steering", !.throttle = tb.throttle,
                                   !.brake = tb.brake,
                                   !.speed_from = last_waypoint_msg]
    /\ UNCHANGED <<flags, vehicle_transform, last_waypoint_msg, latest_speed, sent,
                   last_control, can_bus_recv, ev, tb_gain, tb_out, utilVars>>

\* line 166: self._last_waypoint_msg.waypoints[0] is read and _get_steering
\* called with it
TickSteering ==
    /\ tick # None
    /\ tick.pc = "steering"
    /\ tick' = [tick EXCEPT !.pc = "send",
                            !.steer = get_steering(flags, vehicle_transform,
                                                   TargetWaypoint(last_waypoint_msg)),
                            !.steer_from = last_waypoint_msg]
    /\ UNCHANGED <<flags, pid, vehicle_transform, last_waypoint_msg, latest_speed,
                   sent, last_control, can_bus_recv, ev, tb_gain, tb_out, utilVars>>

\* lines 167-169: the command is built and sent
TickSend ==
    /\ tick # None
    /\ tick.pc = "send"
    /\ last_control' = ControlMessage(tick.steer, tick.throttle, tick.brake,
                                      FALSE, FALSE, tick.msg.timestamp)
    /\ sent' = sent + 1
    /\ ev' = [handler |-> "on_can_bus_update", msg |-> tick.msg,
              speed_from |-> tick.speed_from, steer_from |-> tick.steer_from]
    /\ tick' = None
    /\ UNCHANGED <<flags, pid, vehicle_transform, last_waypoint_msg, latest_speed,
                   can_bus_recv, tb_gain, tb_out, utilVars>>

\* the can-bus thread takes its next step
CanBusThread ==
    \/ \E msg \in CanBusMessages(can_bus_recv + 1) : TickStart(msg)
    \/ \E dt \in Dts : TickThrottleBrake(dt)
    \/ TickSteering
    \/ TickSend

\* the waypoint thread runs on_waypoint, at any moment
NextThreads == CanBusThread \/ Waypoints

SpecThreads == InitThreads /\ [][NextThreads]_vars

\* C18: with on_waypoint and on_can_bus_update on different threads, every
\* command computed from a plan takes its target speed and its steering
\* waypoint from one and the same waypoint message.
C18_PairFromOneMessage ==
    (Ticked /\ ev.speed_from # None) => ev.speed_from = ev.steer_from

----------------------------------------------------------------------------
(* Part 4: simulation/utils.py, Transform.                                 *)
(*                                                                         *)
(* Numbers.  Lengths, coordinates and matrix entries are integers in units *)
(* of 1/Fix.  The code rounds every floating-point product to 53 bits; the *)
(* model rounds every product to 1/Fix, so that, as in the code, products  *)
(* of whole numbers are exact and products of the sines and cosines of     *)
(* other angles than multiples of 90 degrees are not.  Angles are whole    *)
(* degrees, scale factors whole numbers.                                   *)

\* 1.0 in the fixed point of lengths and matrix entries
Fix == 1000

\* n / d rounded to the nearest integer (d > 0)
RoundDiv(n, d) ==
    IF n >= 0 THEN (2 * n + d) \div (2 * d) ELSE 0 - ((d - 2 * n) \div (2 * d))

\* the rounded product a * b of two fixed-point numbers
FixMul(a, b) == RoundDiv(a * b, Fix)

\* math.cos(np.radians(deg)) and math.sin(np.radians(deg)), rounded to 1/Fix
CosFix(deg) ==
    CASE deg = 0 -> Fix
      [] deg = 30 -> 866
      [] deg = 45 -> 707
      [] deg = 90 -> 0
      [] deg = 0 - 90 -> 0
      [] deg = 180 -> 0 - Fix

SinFix(deg) ==
    CASE deg = 0 -> 0
      [] deg = 30 -> 500
      [] deg = 45 -> 707
      [] deg = 90 -> Fix
      [] deg = 0 - 90 -> 0 - Fix
      [] deg = 180 -> 0

\* Scale(x, y, z), default (1.0, 1.0, 1.0)
Scale(x, y, z) == [x |-> x, y |-> y, z |-> z]

\* lines 41-60 of Transform.__init__: the matrix of a position, three angles
\* and a scale
MatrixOf(pos, pitch, yaw, roll, scale) ==
    LET cy == CosFix(yaw)
        sy == SinFix(yaw)
        cr == CosFix(roll)
        sr == SinFix(roll)
        cp == CosFix(pitch)
        sp == SinFix(pitch)
    IN  << << scale.x * FixMul(cp, cy),
              scale.y * (FixMul(FixMul(cy, sp), sr) - FixMul(sy, cr)),
              0 - scale.z * (FixMul(FixMul(cy, sp), cr) + FixMul(sy, sr)),
              pos.x >>,
           << scale.x * FixMul(sy, cp),
              scale.y * (FixMul(FixMul(sy, sp), sr) + FixMul(cy, cr)),
              scale.z * (FixMul(cy, sr) - FixMul(FixMul(sy, sp), cr)),
              pos.y >>,
           << scale.x * sp,
              0 - scale.y * FixMul(cp, sr),
              scale.z * FixMul(cp, cr),
              pos.z >>,
           << 0, 0, 0, Fix >> >>

\* Transform(pos, pitch, yaw, roll, scale=scale)
Transform_init(pos, pitch, yaw, roll, scale) ==
    [location |-> pos, rotation |-> Rotation(pitch, yaw, roll),
     matrix |-> MatrixOf(pos, pitch, yaw, roll, scale)]

\* Transform(matrix=m): pos is None and the angles are 0
Transform_matrix(m) ==
    [location |-> None, rotation |-> Rotation(0, 0, 0), matrix |-> m]

\* a changed Dot4: row i of a with row j of b
Dot4_rows(a, b, i, j) ==
    FixMul(a[i][1], b[j][1]) + FixMul(a[i][2], b[j][2])
        + FixMul(a[i][3], b[j][3]) + FixMul(a[i][4], b[j][4])

\* entry (i, j) of the product of two 4x4 matrices: row i of a with column j
\* of b
Dot4(a, b, i, j) ==
    FixMul(a[i][1], b[1][j]) + FixMul(a[i][2], b[2][j])
        + FixMul(a[i][3], b[3][j]) + FixMul(a[i][4], b[4][j])

\* np.dot(a, b) of two 4x4 matrices
MatMul(a, b) == [i \in 1..4 |-> [j \in 1..4 |-> Dot4(a, b, i, j)]]

\* Transform.__mul__(self, other): a new Transform holding the product
Transform_mul(self, other) == Transform_matrix(MatMul(self.matrix, other.matrix))

\* self.matrix applied to the point p with a homogeneous 1 appended, last row
\* dropped
TransformPoint(m, p) ==
    [i \in 1..3 |-> FixMul(m[i][1], p[1]) + FixMul(m[i][2], p[2])
                        + FixMul(m[i][3], p[3]) + FixMul(m[i][4], Fix)]

\* Transform.transform_points(self, points)
transform_points(self, points) ==
    [k \in 1..Len(points) |-> TransformPoint(self.matrix, points[k])]

----------------------------------------------------------------------------
(* Composition of three transforms, applied to a point *)

\* the transforms composed: positions in whole and half metres, angles with
\* and without exact sines and cosines
MulTransforms ==
    { Transform_init(Location(0, 0, 0), 0, 0, 0, Scale(1, 1, 1)),
      Transform_init(Location(2 * Fix, 0, (14 * Fix) \div 10), 0, 0, 0, Scale(1, 1, 1)),
      Transform_init(Location(3 * Fix, 0 - 4 * Fix, 0), 0, 90, 0, Scale(1, 1, 1)),
      Transform_init(Location(Fix \div 2, 7 * Fix, Fix), 0, 45, 0, Scale(1, 1, 1)),
      Transform_init(Location(0 - 5 * Fix, 2 * Fix, 0), 30, 45, 0, Scale(1, 1, 1)),
      Transform_init(Location(0, 0, 0), 0, 0 - 90, 0 - 90, Scale(0 - 1, 1, 1)) }

\* the points transformed
MulPoints == { <<0, 0, 0>>, <<10 * Fix, 0 - 3 * Fix, Fix>>, <<Fix \div 4, 8 * Fix, 0 - 2 * Fix>> }

InitMul ==
    /\ mul_in \in [A : MulTransforms, B : MulTransforms, C : MulTransforms,
                   p : MulPoints]
    /\ mul_out = None
    /\ box_in = None
    /\ box_out = None
    /\ ControllerIdle
    /\ RestIdle

\* ((A * B) * C).transform_points([p]) and (A * (B * C)).transform_points([p]),
\* and the operands as the four __mul__ calls leave them
MulApply ==
    /\ mul_out = None
    /\ LET A == mul_in.A
           B == mul_in.B
           C == mul_in.C
           AB == Transform_mul(A, B)
           BC == Transform_mul(B, C)
       IN  mul_out' = [left |-> transform_points(Transform_mul(AB, C), <<mul_in.p>>)[1],
                       right |-> transform_points(Transform_mul(A, BC), <<mul_in.p>>)[1],
                       AB |-> AB,
                       A |-> A, B |-> B, C |-> C]
    /\ UNCHANGED <<flags, tb_gain, tb_out, opVars, box_in, box_out, mul_in, tick, restVars>>

NextMul == MulApply

SpecMul == InitMul /\ [][NextMul]_vars

MulDone == mul_out # None

\* the largest difference between the coordinates of the two results
MulDiff ==
    LET d(i) == Abs(mul_out.left[i] - mul_out.right[i])
    IN  IF d(1) >= d(2) /\ d(1) >= d(3) THEN d(1)
        ELSE IF d(2) >= d(3) THEN d(2) ELSE d(3)

\* the rounding of the products allowed for: 0.02 of a unit length, for
\* coordinates of at most ten unit lengths
MulTolerance == Fix \div 50

----------------------------------------------------------------------------
(* Part 5: simulation/utils.py, from the 3D box to the 2D box.             *)
(*                                                                         *)
(* World and camera coordinates and depths are in units of 1/Fix, image    *)
(* coordinates in units of 1/Px.  The vehicle and the camera are turned by *)
(* multiples of 90 degrees, whose matrices hold 0, 1 and -1 only.          *)

\* a changed IntrinsicMat: the principal point is left at column 0
IntrinsicMat_no_centre(image_size) ==
    << << image_size[1] \div 2, 0, 0 >>,
       << 0, image_size[1] \div 2, image_size[2] \div 2 >>,
       << 0, 0, 1 >> >>

\* lines 135-142: the K matrix of a camera with a field of view of 90 degrees;
\* image_width / (2.0 * math.tan(90.0 * math.pi / 360.0)) is image_width / 2
IntrinsicMat(image_size) ==
    << << image_size[1] \div 2, 0, image_size[1] \div 2 >>,
       << 0, image_size[1] \div 2, image_size[2] \div 2 >>,
       << 0, 0, 1 >> >>

\* get_camera_intrinsic_and_transform(image_size, position, rotation_pitch,
\* rotation_roll, rotation_yaw).  Line 145 passes rotation_roll where
\* Transform takes the yaw and rotation_yaw where it takes the roll; line 146
\* passes Scale(x=-1) where Transform takes the orientation, so the scale of
\* to_unreal_transform is the default one.
get_camera_intrinsic_and_transform(image_size, position, rotation_pitch, rotation_roll, rotation_yaw) ==
    LET pos == Location(position[1], position[2], position[3])
        transform == Transform_init(pos, rotation_pitch, rotation_roll,
                                    rotation_yaw, Scale(1, 1, 1))
        to_unreal_transform == Transform_init(Location(0, 0, 0), 0, 0 - 90, 0 - 90,
                                              Scale(1, 1, 1))
    IN  [intrinsic_mat |-> IntrinsicMat(image_size),
         camera_transform |-> Transform_mul(transform, to_unreal_transform),
         image_size |-> image_size,
         transform |-> transform,
         to_unreal_transform |-> to_unreal_transform]

\* numpy.linalg.inv of the matrix of a rotation and a translation: the
\* transposed rotation, and the translation turned back and negated
inv(m) ==
    LET t(i) == 0 - (FixMul(m[1][i], m[1][4]) + FixMul(m[2][i], m[2][4])
                         + FixMul(m[3][i], m[3][4]))
    IN  << << m[1][1], m[2][1], m[3][1], t(1) >>,
           << m[1][2], m[2][2], m[3][2], t(2) >>,
           << m[1][3], m[2][3], m[3][3], t(3) >>,
           << 0, 0, 0, Fix >> >>

\* lines 301-310: the 8 vertices of the box relative to (0, 0, 0)
BoxVertices(extent) ==
    << << extent.x, extent.y, extent.z >>,
       << extent.x, 0 - extent.y, extent.z >>,
       << extent.x, extent.y, 0 - extent.z >>,
       << extent.x, 0 - extent.y, 0 - extent.z >>,
       << 0 - extent.x, extent.y, extent.z >>,
       << 0 - extent.x, 0 - extent.y, extent.z >>,
       << 0 - extent.x, extent.y, 0 - extent.z >>,
       << 0 - extent.x, 0 - extent.y, 0 - extent.z >> >>

\* lines 324-339: a vertex in the world to loc_2d.  pos2d is the K matrix
\* applied to the vertex in the camera's frame; a vertex in the camera's plane
\* (pos2d[2] = 0) has no image coordinates, and is dropped at line 341 whatever
\* the division gives
ProjectVertex(vertex, extrinsic_inv, rgb_intrinsic, image_width, image_height) ==
    LET transformed_3d_pos == TransformPoint(extrinsic_inv, vertex)
        pos2d == [i \in 1..3 |->
                     rgb_intrinsic[i][1] * transformed_3d_pos[1]
                         + rgb_intrinsic[i][2] * transformed_3d_pos[2]
                         + rgb_intrinsic[i][3] * transformed_3d_pos[3]]
    IN  IF pos2d[3] > 0
        THEN [x |-> image_width * Px - RoundDiv(pos2d[1] * Px, pos2d[3]),
              y |-> image_height * Px - RoundDiv(pos2d[2] * Px, pos2d[3]),
              z |-> pos2d[3]]
        ELSE [x |-> 0, y |-> 0, z |-> pos2d[3]]

\* map_ground_bounding_box_to_2D(vehicle_transform, obj_transform,
\* bounding_box, rgb_transform, rgb_intrinsic, rgb_img_size)
map_ground_bounding_box_to_2D(veh_transform, obj_transform, bounding_box, rgb_transform, rgb_intrinsic, rgb_img_size) ==
    LET extrinsic_mat == Transform_mul(veh_transform, rgb_transform)
        bbox == transform_points(obj_transform,
                    transform_points(bounding_box.transform,
                                     BoxVertices(bounding_box.extent)))
        locs == [k \in 1..8 |->
                    ProjectVertex(bbox[k], inv(extrinsic_mat.matrix),
                                  rgb_intrinsic, rgb_img_size[1], rgb_img_size[2])]
    IN  VisibleCorners(locs, rgb_img_size)

\* get_2d_bbox_from_3d_box(depth_array, vehicle_transform, obj_transform,
\* bounding_box, rgb_transform, rgb_intrinsic, rgb_img_size,
\* middle_depth_threshold, neighbor_threshold)
get_2d_bbox_from_3d_box(depth_array, veh_transform, obj_transform, bounding_box, rgb_transform, rgb_intrinsic, rgb_img_size, middle_depth_threshold, neighbor_threshold) ==
    BoxOfCorners(map_ground_bounding_box_to_2D(veh_transform, obj_transform,
                                               bounding_box, rgb_transform,
                                               rgb_intrinsic, rgb_img_size),
                 depth_array, rgb_img_size,
                 middle_depth_threshold, neighbor_threshold)

----------------------------------------------------------------------------
(* A box centred on the optical axis of a camera that looks straight ahead *)

\* the camera: 800 x 600, at (2.0, 0.0, 1.4) on the vehicle, not turned
CamSetup ==
    get_camera_intrinsic_and_transform(ImageSize,
        <<2 * Fix, 0, (14 * Fix) \div 10>>, 0, 0, 0)

\* the vehicle in the world
CamVehicles ==
    { Transform_init(Location(0, 0, 0), 0, 0, 0, Scale(1, 1, 1)),
      Transform_init(Location(5 * Fix, 0 - 3 * Fix, 0), 0, 90, 0, Scale(1, 1, 1)) }

\* depth of the centre of the box along the optical axis
CamDepths == {2 * Fix, 3 * Fix, 10 * Fix, 100 * Fix}

\* half-sizes of the box
CamExtents ==
    { [x |-> Fix, y |-> Fix, z |-> Fix],
      [x |-> Fix \div 2, y |-> Fix \div 2, z |-> (3 * Fix) \div 2],
      [x |-> (3 * Fix) \div 10, y |-> (3 * Fix) \div 10, z |-> (9 * Fix) \div 10],
      [x |-> Fix \div 5, y |-> Fix \div 5, z |-> Fix],
      [x |-> 2 * Fix, y |-> Fix, z |-> Fix] }

\* the box is turned about the vertical axis by this angle against the camera
CamBoxYaws == {0, 45, 90}

\* the scene of a vehicle, a depth, a half-size and a turn: the object stands
\* where the optical axis reaches the depth and is turned as the vehicle is;
\* the depth buffer shows the depth of the centre of the box, or the depth of
\* its nearest corner, everywhere
CamScene(veh_transform, depth, extent, box_yaw, nearest) ==
    LET extrinsic_mat == Transform_mul(veh_transform, CamSetup.camera_transform)
        centre == TransformPoint(extrinsic_mat.matrix, <<0, 0, depth>>)
        obj_transform == Transform_init(Location(centre[1], centre[2], centre[3]),
                                        0, veh_transform.rotation.yaw, 0,
                                        Scale(1, 1, 1))
        bounding_box == [transform |-> Transform_init(Location(0, 0, 0), 0, box_yaw,
                                                      0, Scale(1, 1, 1)),
                         extent |-> extent]
        reach == IF box_yaw = 45
                 THEN FixMul(SinFix(45), extent.x) + FixMul(SinFix(45), extent.y)
                 ELSE IF box_yaw = 90 THEN extent.y ELSE extent.x
        shown == IF nearest THEN depth - reach ELSE depth
    IN  [vehicle_transform |-> veh_transform,
         obj_transform |-> obj_transform,
         bounding_box |-> bounding_box,
         rgb_transform |-> CamSetup.camera_transform,
         rgb_intrinsic |-> CamSetup.intrinsic_mat,
         rgb_img_size |-> CamSetup.image_size,
         depth_array |-> [fg |-> shown, bg |-> shown, split |-> ImageSize[1]],
         middle_depth_threshold |-> MiddleDepthThreshold * Fix,
         neighbor_threshold |-> NeighborThreshold * Fix,
         depth |-> depth, box_yaw |-> box_yaw]

InitCam ==
    /\ \E v \in CamVehicles, d \in CamDepths, e \in CamExtents,
          a \in CamBoxYaws, nearest \in BOOLEAN :
           box_in = CamScene(v, d, e, a, nearest)
    /\ box_out = None
    /\ mul_in = None
    /\ mul_out = None
    /\ ControllerIdle
    /\ RestIdle

\* the call
CamApply ==
    /\ box_out = None
    /\ box_out' = get_2d_bbox_from_3d_box(
                      box_in.depth_array, box_in.vehicle_transform,
                      box_in.obj_transform, box_in.bounding_box,
                      box_in.rgb_transform, box_in.rgb_intrinsic,
                      box_in.rgb_img_size, box_in.middle_depth_threshold,
                      box_in.neighbor_threshold)
    /\ UNCHANGED <<flags, tb_gain, tb_out, opVars, box_in, mul_in, mul_out, tick, restVars>>

NextCam == CamApply

SpecCam == InitCam /\ [][NextCam]_vars

CamDone == box_in # None /\ box_out # None

\* the faces of the box are parallel to the image plane
Facing == box_in.box_yaw \in {0, 90}

\* depth of the face of a facing box nearest to the camera
NearDepth ==
    box_in.depth - (IF box_in.box_yaw = 90 THEN box_in.bounding_box.extent.y
                    ELSE box_in.bounding_box.extent.x)

\* width and height of that face in the image, in whole pixels, rounded down
NearFaceSize ==
    LET f == box_in.rgb_intrinsic[1][1]
        half == IF box_in.box_yaw = 90 THEN box_in.bounding_box.extent.x
                ELSE box_in.bounding_box.extent.y
    IN  << (2 * f * half) \div NearDepth,
           (2 * f * box_in.bounding_box.extent.z) \div NearDepth >>

\* the centre of the box returned is within d half-pixels of the image midpoint
CentredWithin(d) ==
    /\ Abs(box_out.box.xmin + box_out.box.xmax - box_in.rgb_img_size[1]) <= d
    /\ Abs(box_out.box.ymin + box_out.box.ymax - box_in.rgb_img_size[2]) <= d

----------------------------------------------------------------------------
(* The steering formula *)

\* the planar vector from the vehicle to the waypoint steered to in the last
\* tick, and its products with the exact heading (cos yaw, sin yaw)
ToWaypoint ==
    [x |-> TargetWaypoint(last_waypoint_msg).location.x - ev.msg.transform.location.x,
     y |-> TargetWaypoint(last_waypoint_msg).location.y - ev.msg.transform.location.y]

HeadingDot ==
    LET yaw == ev.msg.transform.rotation.yaw
    IN  (IF yaw = 0 THEN 1 ELSE 0) * ToWaypoint.x + (IF yaw = 90 THEN 1 ELSE 0) * ToWaypoint.y

HeadingCross ==
    LET yaw == ev.msg.transform.rotation.yaw
    IN  (IF yaw = 0 THEN 1 ELSE 0) * ToWaypoint.y - (IF yaw = 90 THEN 1 ELSE 0) * ToWaypoint.x

\* the last tick steered to a waypoint away from the vehicle
SteeredTick == Ticked /\ HasPlan(last_waypoint_msg) /\ ~ZeroDistanceTick

\* steer_gain * pi / 2 >= 1, steer_gain in tenths
SaturatesAtRightAngle == flags.steer_gain * Radians(90) >= 10 * Unit

\* C21: _get_steering returns clamp(steer_gain * angle, -1, 1), angle being the
\* unsigned angle between the heading and the planar vector to the waypoint,
\* made negative exactly when the z-component of cross(heading, to_waypoint) is
\* negative: a waypoint directly ahead gives steer 0, a waypoint perpendicular
\* to the heading gives |steer| = 1 with the sign of the cross product whenever
\* steer_gain * pi/2 >= 1, and steer_gain * pi/2 with that sign otherwise.
C21_SteeringFormula ==
    SteeredTick =>
        LET steer == last_control.steer
            quarter == (flags.steer_gain * Radians(90)) \div 10
            eighth == (flags.steer_gain * Radians(45)) \div 10
        IN  /\ 0 - Unit <= steer /\ steer <= Unit
            /\ (steer < 0) <=> (HeadingCross < 0)
            /\ (HeadingCross = 0 /\ HeadingDot > 0) => steer = 0
            /\ (HeadingDot = 0 /\ SaturatesAtRightAngle) => Abs(steer) = Unit
            /\ (HeadingDot = 0 /\ ~SaturatesAtRightAngle) => Abs(steer) = quarter
            /\ (HeadingDot > 0 /\ Abs(HeadingCross) = HeadingDot)
                   => Abs(steer) = Min(eighth, Unit)

\* heading along +y, waypoint along +x: the cross product is negative and the
\* steer saturates at -1
C21_Witness ==
    /\ SteeredTick
    /\ ev.msg.transform.rotation.yaw = 90
    /\ HeadingDot = 0 /\ HeadingCross < 0
    /\ SaturatesAtRightAngle
    /\ last_control.steer = 0 - Unit

----------------------------------------------------------------------------
(* Further claims about map_ground_bounding_box_to_2D and                  *)
(* get_2d_bbox_from_3d_box, on the drawn projections                       *)

\* the loc_2d value is among the corners that map_ground_bounding_box_to_2D
\* returned
Kept(loc_2d) == \E k \in 1..Len(box_out.corners) : box_out.corners[k] = loc_2d

\* 0 <= x < width or 0 <= y < height
EitherInRange(loc_2d, rgb_img_size) ==
    \/ (0 <= loc_2d.x /\ loc_2d.x < rgb_img_size[1] * Px)
    \/ (0 <= loc_2d.y /\ loc_2d.y < rgb_img_size[2] * Px)

\* C22: map_ground_bounding_box_to_2D keeps a projected corner (x, y, z) if
\* and only if z > 0 and (0 <= x < width or 0 <= y < height); a corner in front
\* of the camera with x outside [0, width) and y outside [0, height) is always
\* dropped.
C22_KeptIffEitherInRange ==
    BBoxDone =>
        \A i \in 1..8 :
            Kept(box_in.locs[i]) <=>
                (box_in.locs[i].z > 0 /\ EitherInRange(box_in.locs[i], box_in.rgb_img_size))

\* C23: whenever get_bounding_box_from_corners returns a pair (first, second),
\* it is in canonical min/max order: first.x < second.x and first.y < second.y,
\* for every set of input corners, pairs on an anti-diagonal included.
C23_PairInCanonicalOrder ==
    (BBoxDone /\ box_out.ends # None) =>
        (box_out.ends.a.x < box_out.ends.b.x /\ box_out.ends.a.y < box_out.ends.b.y)

\* the 6 offsets of the sampling points from the middle point, in pixels
SampleOffsets == << <<2, 0>>, <<1, 1>>, <<1, 0 - 1>>, <<0 - 2, 0>>, <<0 - 1, 1>>, <<0 - 1, 0 - 1>> >>

\* the middle of the pair returned, with the depth of its second corner
MiddleOfEnds ==
    [x |-> (box_out.ends.a.x + box_out.ends.b.x) \div 2,
     y |-> (box_out.ends.a.y + box_out.ends.b.y) \div 2,
     z |-> box_out.ends.b.z]

\* the offset points around that middle that lie inside the image, and those of
\* them whose depth (the middle's) is within neighbor_threshold of the buffer
OffsetsInside ==
    {i \in 1..6 : inside_image(MiddleOfEnds.x + SampleOffsets[i][1] * Px,
                               MiddleOfEnds.y + SampleOffsets[i][2] * Px,
                               box_in.rgb_img_size[1], box_in.rgb_img_size[2])}

OffsetsMatching ==
    {i \in OffsetsInside : have_same_depth(MiddleOfEnds.x + SampleOffsets[i][1] * Px,
                                           MiddleOfEnds.y + SampleOffsets[i][2] * Px,
                                           MiddleOfEnds.z, box_in.depth_array,
                                           box_in.neighbor_threshold)}

\* the middle itself is inside the image / matches within neighbor_threshold
MiddleInside ==
    inside_image(MiddleOfEnds.x, MiddleOfEnds.y,
                 box_in.rgb_img_size[1], box_in.rgb_img_size[2])

MiddleMatching ==
    MiddleInside /\ have_same_depth(MiddleOfEnds.x, MiddleOfEnds.y, MiddleOfEnds.z,
                                    box_in.depth_array, box_in.neighbor_threshold)

\* the neighbour-sample branch ran
Voted == BBoxDone /\ box_out.ends # None /\ ~box_out.gate

MiddleAccepted ==
    /\ BBoxDone
    /\ box_out.ends # None
    /\ MiddleInside
    /\ Abs(DepthAt(box_in.depth_array, IntTrunc(MiddleOfEnds.y), IntTrunc(MiddleOfEnds.x))
           - MiddleOfEnds.z) < box_in.middle_depth_threshold

\* the box of the pair returned passes the size filter
PairLargeEnough ==
    LET sized == select_max_bbox(box_out.ends)
    IN  LargeEnough(sized.xmax - sized.xmin, sized.ymax - sized.ymin,
                    box_in.rgb_img_size)

\* C25: if the midpoint lies inside the image and its depth is within
\* middle_depth_threshold of the depth buffer at its pixel, the box is accepted
\* subject only to the size filter: no neighbour sample is consulted, and if
\* the size filter fails the result is no box, whatever the samples would say.
C25_MiddleAcceptsDirectly ==
    MiddleAccepted =>
        /\ box_out.gate
        /\ box_out.n = 0 /\ box_out.count = 0
        /\ box_out.box = (IF PairLargeEnough THEN select_max_bbox(box_out.ends)
                          ELSE None)

\* the midpoint is accepted and all 6 offset samples would match, but the pair
\* is too small: no box
C25_Witness ==
    /\ MiddleAccepted
    /\ Cardinality(OffsetsMatching) = 6
    /\ ~PairLargeEnough
    /\ box_out.box = None
    /\ box_out.n = 0

\* C28: in get_2d_bbox_from_3d_box the depth buffer, of height x width entries,
\* is never indexed out of bounds: have_same_depth is evaluated only for points
\* that satisfy inside_image, the midpoint and every neighbour sample alike.
C28_DepthReadsInBounds ==
    BBoxDone =>
        \A r \in box_out.reads :
            /\ 0 <= r.row /\ r.row < box_in.rgb_img_size[2]
            /\ 0 <= r.col /\ r.col < box_in.rgb_img_size[1]

\* the midpoint is outside the image and is not looked up; some of the samples
\* are outside too, and only those inside are looked up
C28_Witness ==
    /\ Voted
    /\ ~MiddleInside
    /\ box_out.n > 0 /\ box_out.n < 6
    /\ Cardinality(box_out.reads) = box_out.n

\* C29: in the neighbour-sample branch, when none of the sample points lies
\* inside the image (N = 0) no box is returned, although count(True) >= 0.4 * N
\* holds trivially.
C29_NoSamplesNoBox ==
    (Voted /\ Cardinality(OffsetsInside) = 0 /\ ~MiddleInside) =>
        /\ box_out.n = 0
        /\ 10 * box_out.count >= 4 * box_out.n
        /\ box_out.box = None

\* a pair that passes the size filter, with its middle and all samples below
\* the image: no box
C29_Witness ==
    /\ Voted
    /\ box_out.n = 0
    /\ PairLargeEnough
    /\ MiddleOfEnds.y >= box_in.rgb_img_size[2] * Px
    /\ box_out.box = None

----------------------------------------------------------------------------
(* Part 6: simulation/utils.py, from the depth frame to 3D points.         *)
(*                                                                         *)
(* Normalized depths are integers in units of 1/Fix, the coordinates of    *)
(* the points integers in units of 1/Fix metre.  A depth frame is the      *)
(* sequence of its rows; a point is <<X, Y, Z>>.                           *)

\* far, the max depth in meters
Far == 1000

\* the default of max_depth, 0.9
DefaultMaxDepth == (9 * Fix) \div 10

\* a changed Dropped: the cutoff itself is dropped too
Dropped_at_cutoff(depth, max_depth) == depth >= max_depth

\* line 104: normalized_depth > max_depth, the pixels deleted
Dropped(depth, max_depth) == depth > max_depth

\* lines 89-94 and 113-114 for a field of view of 90 degrees: np.linalg.inv(k)
\* applied to [u, v, 1] and multiplied by normalized_depth * far.  The focal
\* length width / (2.0 * math.tan(fov * math.pi / 360.0)) is width / 2.
Unproject(u, v, depth, depth_msg) ==
    LET d == depth * Far
    IN  << RoundDiv((2 * u - depth_msg.width) * d, depth_msg.width),
           RoundDiv((2 * v - depth_msg.height) * d, depth_msg.width),
           d >>

\* depth_to_local_point_cloud(depth_msg, max_depth)
depth_to_local_point_cloud(depth_msg, max_depth) ==
    LET pixel_length == depth_msg.width * depth_msg.height
        u_coord == [k \in 1..pixel_length |->
                       depth_msg.width - 1 - ((k - 1) % depth_msg.width)]
        v_coord == [k \in 1..pixel_length |->
                       depth_msg.height - 1 - ((k - 1) \div depth_msg.width)]
        normalized_depth ==
            [k \in 1..pixel_length |->
                depth_msg.frame[((k - 1) \div depth_msg.width) + 1]
                               [((k - 1) % depth_msg.width) + 1]]
        kept == SelectSeq([k \in 1..pixel_length |-> k],
                          LAMBDA k : ~Dropped(normalized_depth[k], max_depth))
    IN  [i \in 1..Len(kept) |->
            Unproject(u_coord[kept[i]], v_coord[kept[i]],
                      normalized_depth[kept[i]], depth_msg)]

\* what indexing a list raises when the index is not in it
IndexError == [raised |-> "IndexError"]

\* a changed get_3d_world_position: the cutoff is the default of max_depth
get_3d_world_position_default_cutoff(x, y, depth_msg, veh_transform) ==
    LET point_cloud == depth_to_local_point_cloud(depth_msg, DefaultMaxDepth)
        car_transform == Transform_mul(veh_transform, depth_msg.transform)
        world == transform_points(car_transform, point_cloud)
        index == y * depth_msg.width + x
    IN  IF index + 1 \in DOMAIN world
        THEN Location(world[index + 1][1], world[index + 1][2], world[index + 1][3])
        ELSE IndexError

\* get_3d_world_position(x, y, depth_msg, vehicle_transform): the cutoff is
\* far = 1.0
get_3d_world_position(x, y, depth_msg, veh_transform) ==
    LET point_cloud == depth_to_local_point_cloud(depth_msg, Fix)
        car_transform == Transform_mul(veh_transform, depth_msg.transform)
        world == transform_points(car_transform, point_cloud)
        index == y * depth_msg.width + x
    IN  IF index + 1 \in DOMAIN world
        THEN Location(world[index + 1][1], world[index + 1][2], world[index + 1][3])
        ELSE IndexError

----------------------------------------------------------------------------
(* The two functions on drawn depth frames *)

\* width and height of the depth frames
FrameWidth == 3

FrameHeight == 2

\* the normalized depths of a pixel: below, at and above the two cutoffs
FrameDepths == {Fix \div 2, (9 * Fix) \div 10, Fix, (12 * Fix) \div 10}

\* the depth messages: every frame of these depths, the camera 2 m ahead of
\* and 1.4 m above the vehicle's origin
DepthMessages ==
    [frame : [1..FrameHeight -> [1..FrameWidth -> FrameDepths]],
     width : {FrameWidth}, height : {FrameHeight}, fov : {90},
     transform : {Transform_init(Location(2 * Fix, 0, (14 * Fix) \div 10), 0, 0, 0,
                                 Scale(1, 1, 1))}]

\* the values of max_depth passed: the default and the one of
\* get_3d_world_position
MaxDepths == {DefaultMaxDepth, Fix}

InitCloud ==
    /\ cloud_in \in [depth_msg : DepthMessages, vehicle_transform : CamVehicles]
    /\ cloud_out = None
    /\ agent = None
    /\ SimIdle
    /\ SetupIdle
    /\ box_in = None
    /\ box_out = None
    /\ mul_in = None
    /\ mul_out = None
    /\ ControllerIdle

\* a call of depth_to_local_point_cloud
CloudApply(max_depth) ==
    /\ cloud_out = None
    /\ cloud_out' = [call |-> "depth_to_local_point_cloud", max_depth |-> max_depth,
                     points |-> depth_to_local_point_cloud(cloud_in.depth_msg, max_depth)]
    /\ UNCHANGED <<flags, tb_gain, tb_out, opVars, box_in, box_out, mul_in, mul_out,
                   tick, cloud_in, agent, camera_driver, carla_op, setup_in, setup_out>>

\* a call of get_3d_world_position
WorldPositionApply(x, y) ==
    /\ cloud_out = None
    /\ cloud_out' = [call |-> "get_3d_world_position", x |-> x, y |-> y,
                     result |-> get_3d_world_position(x, y, cloud_in.depth_msg,
                                                      cloud_in.vehicle_transform)]
    /\ UNCHANGED <<flags, tb_gain, tb_out, opVars, box_in, box_out, mul_in, mul_out,
                   tick, cloud_in, agent, camera_driver, carla_op, setup_in, setup_out>>

CloudCalls == \E max_depth \in MaxDepths : CloudApply(max_depth)

WorldPositionCalls ==
    \E x \in 0..(FrameWidth - 1), y \in 0..(FrameHeight - 1) : WorldPositionApply(x, y)

NextCloud == CloudCalls \/ WorldPositionCalls

SpecCloud == InitCloud /\ [][NextCloud]_vars

----------------------------------------------------------------------------
(* Claims about depth_to_local_point_cloud and get_3d_world_position *)

CloudDone == cloud_out # None /\ cloud_out.call = "depth_to_local_point_cloud"

WorldPositionDone == cloud_out # None /\ cloud_out.call = "get_3d_world_position"

\* the pixels of the frame, as <<row, column>>, both from 0
FramePixels == (0..(FrameHeight - 1)) \X (0..(FrameWidth - 1))

\* the normalized depth of the pixel in row r, column c
DepthOf(r, c) == cloud_in.depth_msg.frame[r + 1][c + 1]

\* pixel q comes before pixel p, or is p, in row-major order
UpTo(q, p) == q[1] < p[1] \/ (q[1] = p[1] /\ q[2] <= p[2])

\* the number of pixels up to p in row-major order whose depth is at most cutoff
RankWithin(p, cutoff) ==
    Cardinality({q \in FramePixels : UpTo(q, p) /\ DepthOf(q[1], q[2]) <= cutoff})

\* C26: depth_to_local_point_cloud outputs one point per pixel whose normalized
\* depth is <= max_depth (pixels with a greater depth are dropped, a depth equal
\* to the cutoff is kept), in row-major pixel order, and the pixel at column c,
\* row r is unprojected with u = width-1-c and v = height-1-r.
C26_PointPerKeptPixel ==
    CloudDone =>
        LET keptPixels == {p \in FramePixels : DepthOf(p[1], p[2]) <= cloud_out.max_depth}
        IN  /\ Len(cloud_out.points) = Cardinality(keptPixels)
            /\ \A p \in keptPixels :
                   cloud_out.points[RankWithin(p, cloud_out.max_depth)]
                       = Unproject(FrameWidth - 1 - p[2], FrameHeight - 1 - p[1],
                                   DepthOf(p[1], p[2]), cloud_in.depth_msg)

\* cutoff 0.9: the first pixel is above it and dropped, the second is at it and
\* is the first point, unprojected with u = 1 and v = 1, and a pixel of the
\* second row is kept too
C26_Witness ==
    /\ CloudDone
    /\ cloud_out.max_depth = DefaultMaxDepth
    /\ DepthOf(0, 0) = Fix
    /\ DepthOf(0, 1) = DefaultMaxDepth
    /\ DepthOf(1, 0) = Fix \div 2
    /\ Len(cloud_out.points) >= 2
    /\ cloud_out.points[1] = << 0 - (DefaultMaxDepth * Far) \div 3, 0, DefaultMaxDepth * Far >>

\* the world-frame point of the pixel in column x, row y
WorldPointOf(x, y) ==
    LET car_transform == Transform_mul(cloud_in.vehicle_transform,
                                       cloud_in.depth_msg.transform)
        p == TransformPoint(car_transform.matrix,
                            Unproject(FrameWidth - 1 - x, FrameHeight - 1 - y,
                                      DepthOf(y, x), cloud_in.depth_msg))
    IN  Location(p[1], p[2], p[3])

\* C27: get_3d_world_position(x, y, ...) returns the world-frame point of pixel
\* (x, y) of the depth frame: for every frame with values in [0, 1] no pixel is
\* dropped (cutoff 1.0), so the list index y*width + x exists and addresses the
\* point of column x, row y; a value > 1 at or before that pixel shifts the
\* indexing, and the call then returns the point of a later pixel or raises.
C27_WorldPointOfPixel ==
    WorldPositionDone =>
        LET x == cloud_out.x
            y == cloud_out.y
            above == {q \in FramePixels : DepthOf(q[1], q[2]) > Fix}
        IN  /\ (\A q \in above : ~UpTo(q, <<y, x>>))
                   => cloud_out.result = WorldPointOf(x, y)
            /\ (\E q \in above : UpTo(q, <<y, x>>)) =>
                   \/ cloud_out.result = IndexError
                   \/ \E q \in FramePixels \ above :
                          /\ ~UpTo(q, <<y, x>>)
                          /\ cloud_out.result = WorldPointOf(q[2], q[1])

\* a frame with depths 0.5, 0.9 and 1.0 only, the vehicle turned and away from
\* the origin: the last pixel of the second row is returned as its world point
C27_Witness ==
    /\ WorldPositionDone
    /\ \A q \in FramePixels : DepthOf(q[1], q[2]) <= Fix
    /\ \E q \in FramePixels : DepthOf(q[1], q[2]) = Fix
    /\ cloud_in.vehicle_transform.rotation.yaw = 90
    /\ cloud_out.x = FrameWidth - 1 /\ cloud_out.y = FrameHeight - 1
    /\ cloud_out.result = WorldPointOf(FrameWidth - 1, FrameHeight - 1)
    /\ cloud_out.result # IndexError

(***************************************************************************)
(* Part 7: the challenge agent (ERDOSAgent.py).  run_step is called by the *)
(* scenario runner's thread; on_control_msg is the callback of the control *)
(* stream and runs on the subscriber's thread.  The two share _control and *)
(* _control_timestamp.  on_control_msg holds _lock over its assignments;   *)
(* run_step holds it over its reset only: its wait loop and its return     *)
(* read the two attributes without the lock.  Each statement of the        *)
(* callback and each read of run_step is therefore a step of its own.      *)
(*                                                                         *)
(* A carla.VehicleControl is an object: _control holds a reference to it,  *)
(* run_step returns the reference, and the callback fills the object       *)
(* through the reference.  heap is the sequence of the objects created.    *)
(***************************************************************************)

\* the most run_step calls of a run
MaxSteps == 2

\* the most messages delivered to on_control_msg in a run; delivered is the
\* trace of them, delivered_in the run_step call during which each arrived
\* (0 between two calls)
MaxControlMsgs == 2

\* the timestamp argument of run_step, in 1/10000 s
StepTimestamps == {0, 505}

CENTER_CAMERA_NAME == "front_center_camera"

\* the keys of input_data
InputData ==
    { {},
      {"hdmap"},
      {"can_bus", "hdmap"},
      {CENTER_CAMERA_NAME, "can_bus", "GPS", "hdmap", "LIDAR"} }

\* game_time = int(timestamp * 1000)
GameTime(timestamp) == timestamp \div 10

\* Timestamp(coordinates=[...])
Timestamp(coordinates) == [coordinates |-> coordinates]

\* a < b on timestamps: the order of the coordinate lists
TimestampLess(a, b) ==
    \/ a.coordinates[1] < b.coordinates[1]
    \/ a.coordinates[1] = b.coordinates[1] /\ a.coordinates[2] < b.coordinates[2]

\* Message(data, timestamp) and WatermarkMessage(timestamp)
Message(data, timestamp) == [watermark |-> FALSE, data |-> data, timestamp |-> timestamp]

WatermarkMessage(timestamp) == [watermark |-> TRUE, data |-> None, timestamp |-> timestamp]

\* the timestamps a control message can carry
ControlTimestamps ==
    {Timestamp(<<GameTime(t), n>>) : t \in StepTimestamps, n \in 0..(MaxSteps - 1)}

\* the control messages: every field differs from a fresh VehicleControl's
ControlMessages ==
    [watermark : {FALSE}, timestamp : ControlTimestamps,
     throttle : {500, 800}, brake : {250}, steer : {-300},
     reverse : {TRUE}, hand_brake : {TRUE}]

\* the messages delivered to on_control_msg
DeliveredMessages ==
    ControlMessages \cup {WatermarkMessage(ts) : ts \in ControlTimestamps}

\* the fields on_control_msg copies from the message, in the order of lines 349-353
ControlFields == <<"throttle", "brake", "steer", "reverse", "hand_brake">>

\* carla.VehicleControl()
VehicleControl ==
    [throttle |-> 0, steer |-> 0, brake |-> 0,
     hand_brake |-> FALSE, reverse |-> FALSE, manual_gear_shift |-> FALSE]

StreamNames == {"global_trajectory", "open_drive", "can_bus", "camera", "point_cloud"}

\* self._global_plan_world_coord, and the values of input_data
GlobalPlanWorldCoord == [plan |-> "global_plan_world_coord"]

InputValue(key) == [value |-> key]

\* the agent after setup
Agent_setup ==
    [lock |-> "free",
     control |-> None,
     control_timestamp |-> None,
     heap |-> << >>,
     vehicle_transform |-> None,
     waypoints |-> None,
     sent_open_drive_data |-> FALSE,
     open_drive_data |-> None,
     message_num |-> 0,
     streams |-> [n \in StreamNames |-> << >>],
     run_step |-> [pc |-> "idle", calls |-> 0, timestamp |-> 0, input_data |-> {},
                   erdos_timestamp |-> None, returned |-> None],
     on_control_msg |-> [pc |-> "idle", msg |-> None],
     delivered |-> << >>,
     delivered_in |-> << >>]

InitAgent ==
    /\ agent = Agent_setup
    /\ SimIdle
    /\ SetupIdle
    /\ cloud_in = None
    /\ cloud_out = None
    /\ box_in = None
    /\ box_out = None
    /\ mul_in = None
    /\ mul_out = None
    /\ ControllerIdle

agentRest == <<flags, tb_gain, tb_out, opVars, box_in, box_out, mul_in, mul_out, tick, cloud_in, cloud_out, camera_driver, carla_op, setup_in, setup_out>>

\* the sends of a step that has forgotten what it has sent before
SentOn_every_step(name, input_data, a, erdos_timestamp) ==
    IF name \in {"global_trajectory", "open_drive"}
    THEN << Message(GlobalPlanWorldCoord, erdos_timestamp), WatermarkMessage(erdos_timestamp) >>
    ELSE << >>

\* what the loop over input_data sends on one stream
SentOn(name, input_data, a, erdos_timestamp) ==
    LET watermark == WatermarkMessage(erdos_timestamp)
    IN  CASE name = "global_trajectory" ->
                 IF a.waypoints = None
                 THEN << Message(GlobalPlanWorldCoord, erdos_timestamp), watermark >>
                 ELSE << watermark >>
          [] name = "camera" ->
                 IF CENTER_CAMERA_NAME \in input_data
                 THEN << Message(InputValue(CENTER_CAMERA_NAME), erdos_timestamp), watermark >>
                 ELSE << >>
          [] name = "can_bus" ->
                 IF "can_bus" \in input_data
                 THEN << Message(InputValue("can_bus"), erdos_timestamp), watermark >>
                 ELSE << >>
          [] name = "open_drive" ->
                 IF "hdmap" \in input_data
                 THEN IF ~a.sent_open_drive_data
                      THEN << Message(InputValue("hdmap"), erdos_timestamp), watermark >>
                      ELSE << watermark >>
                 ELSE << >>
          [] name = "point_cloud" ->
                 IF "LIDAR" \in input_data
                 THEN << Message(InputValue("LIDAR"), erdos_timestamp), watermark >>
                 ELSE << >>

\* run_step, lines 267-269: a new call resets the control under the lock
RunStepReset(timestamp, input_data) ==
    /\ agent # None
    /\ agent.run_step.pc = "idle"
    /\ agent.run_step.calls < MaxSteps
    /\ agent.lock = "free"
    /\ agent' = [agent EXCEPT !.control = None,
                              !.control_timestamp = None,
                              !.run_step = [pc |-> "send", calls |-> @.calls + 1,
                                            timestamp |-> timestamp,
                                            input_data |-> input_data,
                                            erdos_timestamp |-> None,
                                            returned |-> None]]
    /\ UNCHANGED agentRest

\* run_step, lines 270-334: the step's timestamp, and the messages of the step
RunStepSend ==
    /\ agent # None
    /\ agent.run_step.pc = "send"
    /\ LET game_time == GameTime(agent.run_step.timestamp)
           erdos_timestamp == Timestamp(<<game_time, agent.message_num>>)
           input_data == agent.run_step.input_data
       IN  agent' = [agent EXCEPT
               !.message_num = @ + 1,
               !.waypoints = GlobalPlanWorldCoord,
               !.vehicle_transform = IF "can_bus" \in input_data THEN InputValue("can_bus") ELSE @,
               !.sent_open_drive_data = @ \/ "hdmap" \in input_data,
               !.open_drive_data = IF "hdmap" \in input_data /\ ~agent.sent_open_drive_data
                                   THEN InputValue("hdmap") ELSE @,
               !.streams = [n \in StreamNames |->
                               @[n] \o SentOn(n, input_data, agent, erdos_timestamp)],
               !.run_step.erdos_timestamp = erdos_timestamp,
               !.run_step.pc = "wait"]
    /\ UNCHANGED agentRest

\* run_step, line 337, first operand: self._control_timestamp is None; the
\* loop sleeps (line 338) and tests again when it is
RunStepTestNone ==
    /\ agent # None
    /\ agent.run_step.pc = "wait"
    /\ agent' = [agent EXCEPT !.run_step.pc =
                     IF agent.control_timestamp = None THEN "wait" ELSE "compare"]
    /\ UNCHANGED agentRest

\* run_step, line 337, second operand: self._control_timestamp < erdos_timestamp;
\* the loop sleeps (line 338) and tests again when it is
RunStepTestLess ==
    /\ agent # None
    /\ agent.run_step.pc = "compare"
    /\ agent' = [agent EXCEPT !.run_step.pc =
                     IF TimestampLess(agent.control_timestamp, agent.run_step.erdos_timestamp)
                     THEN "wait" ELSE "return"]
    /\ UNCHANGED agentRest

\* run_step, line 340: return self._control
RunStepReturn ==
    /\ agent # None
    /\ agent.run_step.pc = "return"
    /\ agent' = [agent EXCEPT !.run_step.returned = [value |-> agent.control],
                              !.run_step.pc = "idle"]
    /\ UNCHANGED agentRest

\* on_control_msg, lines 343-345: a watermark is ignored, another message
\* takes the lock
OnControlMsgReceive(msg) ==
    /\ agent # None
    /\ agent.on_control_msg.pc = "idle"
    /\ Len(agent.delivered) < MaxControlMsgs
    /\ msg.watermark \/ agent.lock = "free"
    /\ agent' = [agent EXCEPT
           !.delivered = Append(@, msg),
           !.delivered_in = Append(@, IF agent.run_step.pc = "idle" THEN 0
                                      ELSE agent.run_step.calls),
           !.lock = IF msg.watermark THEN @ ELSE "on_control_msg",
           !.on_control_msg = IF msg.watermark THEN @ ELSE [pc |-> "timestamp", msg |-> msg]]
    /\ UNCHANGED agentRest

\* on_control_msg, line 347
OnControlMsgTimestamp ==
    /\ agent # None
    /\ agent.on_control_msg.pc = "timestamp"
    /\ agent' = [agent EXCEPT !.control_timestamp = agent.on_control_msg.msg.timestamp,
                              !.on_control_msg.pc = "control"]
    /\ UNCHANGED agentRest

\* on_control_msg, line 348
OnControlMsgControl ==
    /\ agent # None
    /\ agent.on_control_msg.pc = "control"
    /\ agent' = [agent EXCEPT !.heap = Append(@, VehicleControl),
                              !.control = [ref |-> Len(agent.heap) + 1],
                              !.on_control_msg.pc = ControlFields[1]]
    /\ UNCHANGED agentRest

\* on_control_msg, lines 349-353: the next of the five assignments
OnControlMsgField ==
    /\ agent # None
    /\ \E k \in 1..Len(ControlFields) :
           /\ agent.on_control_msg.pc = ControlFields[k]
           /\ agent' = [agent EXCEPT
                  !.heap[agent.control.ref][ControlFields[k]] =
                      agent.on_control_msg.msg[ControlFields[k]],
                  !.on_control_msg.pc = IF k < Len(ControlFields) THEN ControlFields[k + 1]
                                        ELSE "manual_gear_shift"]
    /\ UNCHANGED agentRest

\* on_control_msg, line 354, and the end of the with block
OnControlMsgManualGearShift ==
    /\ agent # None
    /\ agent.on_control_msg.pc = "manual_gear_shift"
    /\ agent' = [agent EXCEPT !.heap[agent.control.ref].manual_gear_shift = FALSE,
                              !.lock = "free",
                              !.on_control_msg = [pc |-> "idle", msg |-> None]]
    /\ UNCHANGED agentRest

NextAgent ==
    \/ \E timestamp \in StepTimestamps, input_data \in InputData :
           RunStepReset(timestamp, input_data)
    \/ RunStepSend
    \/ RunStepTestNone
    \/ RunStepTestLess
    \/ RunStepReturn
    \/ \E msg \in DeliveredMessages : OnControlMsgReceive(msg)
    \/ OnControlMsgTimestamp
    \/ OnControlMsgControl
    \/ OnControlMsgField
    \/ OnControlMsgManualGearShift

SpecAgent == InitAgent /\ [][NextAgent]_vars

(***************************************************************************)
(* The value run_step returns                                              *)
(***************************************************************************)

\* run_step has returned and has not been called again
Returned == agent # None /\ agent.run_step.pc = "idle" /\ agent.run_step.calls > 0

\* the object holds the five fields of the message
FilledFrom(control, msg) ==
    /\ control.throttle = msg.throttle
    /\ control.brake = msg.brake
    /\ control.steer = msg.steer
    /\ control.reverse = msg.reverse
    /\ control.hand_brake = msg.hand_brake

\* the delivered control messages that are not older than the step
FreshMessages ==
    {agent.delivered[k] : k \in {j \in 1..Len(agent.delivered) :
        /\ ~agent.delivered[j].watermark
        /\ ~TimestampLess(agent.delivered[j].timestamp, agent.run_step.erdos_timestamp)}}

\* C30: run_step never returns None and never a partially filled control: the
\* value it returns is a control object all of whose fields (throttle, brake,
\* steer, reverse, hand_brake) were set from one control message whose
\* timestamp is >= the timestamp of the step.
C30_ReturnsCompleteControl ==
    Returned =>
        /\ agent.run_step.returned.value # None
        /\ \E msg \in FreshMessages :
               FilledFrom(agent.heap[agent.run_step.returned.value.ref], msg)

(***************************************************************************)
(* The wait of run_step.  Both threads keep running: a step of run_step    *)
(* that can be taken is taken eventually, and so is a step of the          *)
(* callback.  Calls of run_step and deliveries of messages are the         *)
(* environment's and need not happen.                                      *)
(***************************************************************************)

RunStepProgress ==
    \/ RunStepSend
    \/ RunStepTestNone
    \/ RunStepTestLess
    \/ RunStepReturn

OnControlMsgProgress ==
    \/ OnControlMsgTimestamp
    \/ OnControlMsgControl
    \/ OnControlMsgField
    \/ OnControlMsgManualGearShift

SpecAgentLive ==
    SpecAgent /\ WF_vars(RunStepProgress) /\ WF_vars(OnControlMsgProgress)

\* call number k of run_step is in progress, its reset done
InStep(k) == agent # None /\ agent.run_step.calls = k /\ agent.run_step.pc # "idle"

\* call number k of run_step has returned
StepReturned(k) ==
    /\ agent # None
    /\ \/ agent.run_step.calls > k
       \/ agent.run_step.calls = k /\ agent.run_step.pc = "idle"

\* the timestamp of the call in progress, known from its reset on
StepTimestamp ==
    IF agent.run_step.pc = "send"
    THEN Timestamp(<<GameTime(agent.run_step.timestamp), agent.message_num>>)
    ELSE agent.run_step.erdos_timestamp

\* the control messages delivered during call k and not older than it
FreshDuring(k) ==
    {j \in 1..Len(agent.delivered) :
        /\ agent.delivered_in[j] = k
        /\ ~agent.delivered[j].watermark
        /\ ~TimestampLess(agent.delivered[j].timestamp, StepTimestamp)}

\* C31: run_step eventually returns if and only if a non-watermark control
\* message with timestamp >= the step's timestamp is delivered to
\* on_control_msg after the step has cleared the control state; the "if"
\* half: once such a message has been delivered during a call, the call returns.
C31_FreshMessageReleasesWait ==
    \A k \in 1..MaxSteps :
        (InStep(k) /\ FreshDuring(k) # {}) ~> StepReturned(k)

\* the "only if" half, and the messages that never release the wait: a call
\* that has left its loop has had a fresh message delivered during it
C31_ReleasedOnlyByFreshMessage ==
    \A k \in 1..MaxSteps :
        (agent.run_step.calls = k /\ agent.run_step.pc = "return") => FreshDuring(k) # {}

(***************************************************************************)
(* The messages run_step sends                                             *)
(***************************************************************************)

\* the positions of the data messages of a stream
DataAt(name) ==
    {i \in 1..Len(agent.streams[name]) : ~agent.streams[name][i].watermark}

\* the positions of the watermarks of a stream
WatermarksAt(name) ==
    {i \in 1..Len(agent.streams[name]) : agent.streams[name][i].watermark}

\* the steps that have sent their messages
StepsSent ==
    IF agent.run_step.pc = "send" THEN agent.run_step.calls - 1 ELSE agent.run_step.calls

\* C32: over any sequence of run_step calls the global-trajectory data message
\* is sent exactly once, in the first step; the open-drive data message at
\* most once, as the first message of its stream; every step sends a
\* watermark on the global-trajectory stream; on each stream a data message
\* is followed by the watermark of its step; and _message_num, the second
\* timestamp coordinate, increases by exactly 1 per step.
C32_StepMessages ==
    agent # None =>
        LET gt == agent.streams["global_trajectory"]
            od == agent.streams["open_drive"]
        IN  /\ agent.message_num = StepsSent
            /\ StepsSent >= 1 =>
                   /\ DataAt("global_trajectory") = {1}
                   /\ gt[1].timestamp.coordinates[2] = 0
            /\ Cardinality(WatermarksAt("global_trajectory")) = StepsSent
            /\ \A i \in WatermarksAt("global_trajectory") :
                   gt[i].timestamp.coordinates[2] = i - 2
            /\ DataAt("open_drive") \subseteq {1}
            /\ od # << >> => DataAt("open_drive") = {1}
            /\ \A name \in StreamNames : \A i \in DataAt(name) :
                   /\ i + 1 \in WatermarksAt(name)
                   /\ agent.streams[name][i + 1].timestamp = agent.streams[name][i].timestamp

\* two steps with an hdmap input have sent their messages: one data message
\* and two watermarks on the global-trajectory and on the open-drive stream
C32_Witness ==
    /\ agent # None
    /\ StepsSent = MaxSteps
    /\ agent.message_num = MaxSteps
    /\ Len(agent.streams["global_trajectory"]) = MaxSteps + 1
    /\ Len(agent.streams["open_drive"]) = MaxSteps + 1
    /\ DataAt("open_drive") = {1}
    /\ Len(agent.streams["camera"]) = 2 * MaxSteps

(***************************************************************************)
(* Part 8: CameraDriverOperator (simulation/camera_driver_operator.py).    *)
(* The simulator calls process_images once per image, each call on a       *)
(* thread of its own; the whole body runs inside `with self._lock`.  Each  *)
(* statement that reads or writes _message_cnt or the output stream is a   *)
(* step, so that the lock is what keeps the calls apart.                   *)
(***************************************************************************)

\* the images delivered in a run, one thread each
MaxImages == 3

\* carla_image.timestamp, in 1/10000 s
ImageTimestamps == {0, 505}

\* self._camera_setup.type
CameraTypes == {"sensor.camera.rgb", "sensor.camera.depth", "sensor.camera.semantic_segmentation"}

\* FrameMessage, DepthFrameMessage or SegmentedFrameMessage of an image
FrameMessageOf(type, carla_image, timestamp) ==
    Message([type |-> type, image |-> carla_image.id], timestamp)

\* CameraDriverOperator.__init__
CameraDriver_init(camera_setup) ==
    [camera_setup |-> camera_setup,
     message_cnt |-> 1,
     lock |-> "free",
     stream |-> << >>,
     threads |-> [t \in 1..MaxImages |->
                     [pc |-> "idle", carla_image |-> None, timestamp |-> None]]]

InitCamera ==
    /\ camera_driver \in {CameraDriver_init([type |-> type]) : type \in CameraTypes}
    /\ carla_op = None
    /\ SetupIdle
    /\ agent = None
    /\ cloud_in = None
    /\ cloud_out = None
    /\ box_in = None
    /\ box_out = None
    /\ mul_in = None
    /\ mul_out = None
    /\ ControllerIdle

cameraRest == <<flags, tb_gain, tb_out, opVars, box_in, box_out, mul_in, mul_out, tick, cloud_in, cloud_out, agent, carla_op, setup_in, setup_out>>

\* a lock that does not exclude
LockFree_always(lock) == TRUE

\* threading.Lock: it can be taken when no thread holds it
LockFree(lock) == lock = "free"

\* the simulator calls process_images(carla_image) on thread t
ProcessImages(t, carla_image) ==
    /\ camera_driver # None
    /\ camera_driver.threads[t].pc = "idle"
    /\ camera_driver' = [camera_driver EXCEPT
           !.threads[t] = [pc |-> "lock", carla_image |-> carla_image, timestamp |-> None]]
    /\ UNCHANGED cameraRest

\* line 76: with self._lock
ProcessImagesLock(t) ==
    /\ camera_driver # None
    /\ camera_driver.threads[t].pc = "lock"
    /\ LockFree(camera_driver.lock)
    /\ camera_driver' = [camera_driver EXCEPT !.lock = "process_images",
                                              !.threads[t].pc = "timestamp"]
    /\ UNCHANGED cameraRest

\* lines 77-79: the timestamp of the image
ProcessImagesTimestamp(t) ==
    /\ camera_driver # None
    /\ camera_driver.threads[t].pc = "timestamp"
    /\ LET game_time == GameTime(camera_driver.threads[t].carla_image.timestamp)
       IN  camera_driver' = [camera_driver EXCEPT
               !.threads[t].timestamp = Timestamp(<<game_time, camera_driver.message_cnt>>),
               !.threads[t].pc = "count"]
    /\ UNCHANGED cameraRest

\* line 80: self._message_cnt += 1
ProcessImagesCount(t) ==
    /\ camera_driver # None
    /\ camera_driver.threads[t].pc = "count"
    /\ camera_driver' = [camera_driver EXCEPT !.message_cnt = @ + 1,
                                              !.threads[t].pc = "send"]
    /\ UNCHANGED cameraRest

\* lines 82-96: the frame message is built and sent
ProcessImagesSend(t) ==
    /\ camera_driver # None
    /\ camera_driver.threads[t].pc = "send"
    /\ camera_driver' = [camera_driver EXCEPT
           !.stream = Append(@, FrameMessageOf(camera_driver.camera_setup.type,
                                               camera_driver.threads[t].carla_image,
                                               camera_driver.threads[t].timestamp)),
           !.threads[t].pc = "watermark"]
    /\ UNCHANGED cameraRest

\* line 97 and the end of the with block: the watermark is sent, the lock released
ProcessImagesWatermark(t) ==
    /\ camera_driver # None
    /\ camera_driver.threads[t].pc = "watermark"
    /\ camera_driver' = [camera_driver EXCEPT
           !.stream = Append(@, WatermarkMessage(camera_driver.threads[t].timestamp)),
           !.lock = "free",
           !.threads[t].pc = "done"]
    /\ UNCHANGED cameraRest

NextCamera ==
    \/ \E t \in 1..MaxImages, ts \in ImageTimestamps :
           ProcessImages(t, [id |-> t, timestamp |-> ts])
    \/ \E t \in 1..MaxImages : ProcessImagesLock(t)
    \/ \E t \in 1..MaxImages : ProcessImagesTimestamp(t)
    \/ \E t \in 1..MaxImages : ProcessImagesCount(t)
    \/ \E t \in 1..MaxImages : ProcessImagesSend(t)
    \/ \E t \in 1..MaxImages : ProcessImagesWatermark(t)

SpecCamera == InitCamera /\ [][NextCamera]_vars

\* the threads whose image has got its timestamp
Stamped ==
    {t \in 1..MaxImages : camera_driver.threads[t].pc \in {"count", "send", "watermark", "done"}}

\* the threads whose image has been counted
Counted ==
    {t \in 1..MaxImages : camera_driver.threads[t].pc \in {"send", "watermark", "done"}}

\* C33: process_images is atomic under its lock: each image gets a distinct
\* message count, the counts being 1, 2, 3, ... without duplicate or gap, and
\* on the output stream each frame message is immediately followed by the
\* watermark with the same timestamp, no message of another image in between.
C33_ProcessImagesAtomic ==
    camera_driver # None =>
        LET stream == camera_driver.stream
            threads == camera_driver.threads
        IN  /\ camera_driver.message_cnt = 1 + Cardinality(Counted)
            /\ {threads[t].timestamp.coordinates[2] : t \in Stamped} = 1..Cardinality(Stamped)
            /\ \A t, u \in Stamped :
                   threads[t].timestamp.coordinates[2] = threads[u].timestamp.coordinates[2]
                       => t = u
            /\ \A i \in 1..Len(stream) :
                   /\ stream[i].timestamp.coordinates[2] = (i + 1) \div 2
                   /\ stream[i].watermark <=> i % 2 = 0
                   /\ i % 2 = 0 => stream[i].timestamp = stream[i - 1].timestamp
            /\ \A i, j \in 1..Len(stream) :
                   (i # j /\ ~stream[i].watermark /\ ~stream[j].watermark)
                       => stream[i].data.image # stream[j].data.image
            /\ Len(stream) % 2 = 1 =>
                   \E t \in 1..MaxImages :
                       /\ threads[t].pc = "watermark"
                       /\ stream[Len(stream)].data.image = t

\* all images were delivered before the first was processed, and the last
\* of them was processed first
C33_Witness ==
    /\ camera_driver # None
    /\ \A t \in 1..MaxImages : camera_driver.threads[t].pc = "done"
    /\ Len(camera_driver.stream) = 2 * MaxImages
    /\ camera_driver.stream[1].data.image = MaxImages
    /\ camera_driver.message_cnt = MaxImages + 1

(***************************************************************************)
(* Part 9: CarlaLegacyOperator (simulation/carla_legacy_operator.py).      *)
(* execute sets the control dictionary and then loops in                   *)
(* read_data_at_frequency, calling read_carla_data once per period.        *)
(* update_control is the callback of the control stream and runs on the    *)
(* subscriber's thread; neither takes a lock.  read_carla_data touches     *)
(* the shared dictionary only at line 186, so its sends are one step and   *)
(* line 186 another; each assignment of update_control is a step.          *)
(***************************************************************************)

\* the most read_carla_data calls of a run
MaxReads == 2

\* the most messages delivered to update_control in a run
MaxUpdates == 2

\* measurements.game_timestamp
GameTimestamps == {0, 50}

\* the sensors of camera_setups and lidar_setups, and what a reading can hold
SensorNames == {"front_rgb_camera", "front_depth_camera", "front_lidar"}

SensorData == { {"front_rgb_camera"}, SensorNames }

\* the streams of setup_streams
GroundStreams == {"can_bus", "traffic_lights", "pedestrians", "vehicles", "traffic_signs"}

CarlaStreams == GroundStreams \cup SensorNames

\* a non-player agent: the field it has, and its id
NonPlayerAgent(field, id) == [field |-> field, id |-> id]

\* measurements.non_player_agents
NonPlayerAgents ==
    { << NonPlayerAgent("vehicle", 7), NonPlayerAgent("pedestrian", 5),
         NonPlayerAgent("pedestrian", 3), NonPlayerAgent("traffic_light", 9) >>,
      << NonPlayerAgent("pedestrian", 5), NonPlayerAgent("pedestrian", 5),
         NonPlayerAgent("speed_limit_sign", 11) >>,
      << NonPlayerAgent("pedestrian", 0), NonPlayerAgent("vehicle", 4),
         NonPlayerAgent("pedestrian", 3) >> }

Measurements == [game_timestamp : GameTimestamps, non_player_agents : NonPlayerAgents]

\* the dictionary execute builds
NeutralControl ==
    [steer |-> 0, throttle |-> 0, brake |-> 0, hand_brake |-> FALSE, reverse |-> FALSE]

\* the keys update_control assigns, in the order of lines 320-324
UpdateFields == <<"steer", "throttle", "brake", "hand_brake", "reverse">>

\* the control messages delivered to update_control: no two agree in a number
CarlaControlMessages ==
    { [steer |-> 100, throttle |-> 500, brake |-> 250, hand_brake |-> TRUE, reverse |-> TRUE],
      [steer |-> -100, throttle |-> 800, brake |-> 750, hand_brake |-> TRUE, reverse |-> FALSE] }

\* dict.get(key): None for a missing key
DictGet(d, key) == IF key \in DOMAIN d THEN [value |-> d[key]] ELSE None

\* a pedestrian that is given a new index at every reading
Unseen_always(agent_id_map, id) == TRUE

\* line 230: not self.agent_id_map.get(agent.id)
Unseen(agent_id_map, id) ==
    LET got == DictGet(agent_id_map, id)
    IN  got = None \/ got.value = 0

\* d[key] = value
DictSet(d, key, value) ==
    [k \in DOMAIN d \cup {key} |-> IF k = key THEN value ELSE d[k]]

\* __get_ground_agents: the loop over the agents from position i on; acc holds
\* agent_id_map, pedestrian_count and the four lists
RECURSIVE GroundAgentsFrom(_, _, _)
GroundAgentsFrom(non_player_agents, i, acc) ==
    IF i > Len(non_player_agents) THEN acc
    ELSE LET a == non_player_agents[i]
             new == a.field = "pedestrian" /\ Unseen(acc.agent_id_map, a.id)
             count == IF new THEN acc.pedestrian_count + 1 ELSE acc.pedestrian_count
             map == IF new THEN DictSet(acc.agent_id_map, a.id, count) ELSE acc.agent_id_map
         IN  GroundAgentsFrom(non_player_agents, i + 1,
                 [agent_id_map |-> map,
                  pedestrian_count |-> count,
                  vehicles |-> IF a.field = "vehicle"
                               THEN Append(acc.vehicles, [id |-> a.id]) ELSE acc.vehicles,
                  pedestrians |-> IF a.field = "pedestrian"
                                  THEN Append(acc.pedestrians,
                                              [pedestrian_index |-> map[a.id], id |-> a.id])
                                  ELSE acc.pedestrians,
                  traffic_lights |-> IF a.field = "traffic_light"
                                     THEN Append(acc.traffic_lights, [id |-> a.id])
                                     ELSE acc.traffic_lights,
                  speed_limit_signs |-> IF a.field = "speed_limit_sign"
                                        THEN Append(acc.speed_limit_signs, [id |-> a.id])
                                        ELSE acc.speed_limit_signs])

\* __get_ground_agents
get_ground_agents(self, measurements) ==
    GroundAgentsFrom(measurements.non_player_agents, 1,
        [agent_id_map |-> self.agent_id_map, pedestrian_count |-> self.pedestrian_count,
         vehicles |-> << >>, pedestrians |-> << >>,
         traffic_lights |-> << >>, speed_limit_signs |-> << >>])

\* the sends of a step that leaves the watermarks of the sensor streams out
CarlaSentOn_sensors_without_watermark(name, measurements, agents, sensor_data, timestamp) ==
    IF name \in GroundStreams
    THEN << Message([stream |-> name], timestamp), WatermarkMessage(timestamp) >>
    ELSE IF name \in sensor_data THEN << Message([measurement |-> name], timestamp) >>
    ELSE << >>

\* what read_carla_data sends on one stream: __send_player_data,
\* __send_ground_agent_data and __send_sensor_data
CarlaSentOn(name, measurements, agents, sensor_data, timestamp) ==
    LET watermark == WatermarkMessage(timestamp)
        data == CASE name = "can_bus" -> [can_bus |-> "player_measurements"]
                  [] name = "vehicles" -> [list |-> agents.vehicles]
                  [] name = "pedestrians" -> [list |-> agents.pedestrians]
                  [] name = "traffic_lights" -> [list |-> agents.traffic_lights]
                  [] name = "traffic_signs" -> [list |-> agents.speed_limit_signs]
                  [] OTHER -> [measurement |-> name]
    IN  IF name \in GroundStreams \/ name \in sensor_data
        THEN << Message(data, timestamp), watermark >>
        ELSE << >>

\* CarlaLegacyOperator.__init__; control is set by execute only
CarlaLegacyOperator_init ==
    [message_num |-> 0,
     agent_id_map |-> << >>,
     pedestrian_count |-> 0,
     control |-> None,
     streams |-> [n \in CarlaStreams |-> << >>],
     to_simulator |-> << >>,
     readings |-> << >>,
     received |-> << >>,
     raised |-> None,
     read_loop |-> "execute",
     update_control |-> [pc |-> "idle", msg |-> None]]

InitCarla ==
    /\ carla_op = CarlaLegacyOperator_init
    /\ camera_driver = None
    /\ SetupIdle
    /\ agent = None
    /\ cloud_in = None
    /\ cloud_out = None
    /\ box_in = None
    /\ box_out = None
    /\ mul_in = None
    /\ mul_out = None
    /\ ControllerIdle

carlaRest == <<flags, tb_gain, tb_out, opVars, box_in, box_out, mul_in, mul_out, tick, cloud_in, cloud_out, agent, camera_driver, setup_in, setup_out>>

\* execute, lines 328-350: the control dictionary, then the read loop
Execute ==
    /\ carla_op # None
    /\ carla_op.read_loop = "execute"
    /\ carla_op' = [carla_op EXCEPT !.control = NeutralControl, !.read_loop = "read"]
    /\ UNCHANGED carlaRest

\* read_carla_data, lines 163-184
ReadCarlaData(measurements, sensor_data) ==
    /\ carla_op # None
    /\ carla_op.read_loop = "read"
    /\ Len(carla_op.readings) < MaxReads
    /\ LET timestamp == Timestamp(<<measurements.game_timestamp, carla_op.message_num>>)
           agents == get_ground_agents(carla_op, measurements)
       IN  carla_op' = [carla_op EXCEPT
               !.message_num = @ + 1,
               !.agent_id_map = agents.agent_id_map,
               !.pedestrian_count = agents.pedestrian_count,
               !.streams = [n \in CarlaStreams |->
                   @[n] \o CarlaSentOn(n, measurements, agents, sensor_data, timestamp)],
               !.readings = Append(@, [measurements |-> measurements,
                                       sensor_data |-> sensor_data]),
               !.read_loop = "send_control"]
    /\ UNCHANGED carlaRest

\* read_carla_data, line 186: self.client.send_control(**self.control)
SendControl ==
    /\ carla_op # None
    /\ carla_op.read_loop = "send_control"
    /\ carla_op' = [carla_op EXCEPT
           !.to_simulator = Append(@, [control |-> carla_op.control,
                                       received |-> Len(carla_op.received),
                                       updating |-> carla_op.update_control.pc # "idle"]),
           !.read_loop = "read"]
    /\ UNCHANGED carlaRest

\* update_control is called with a message; without self.control its first
\* assignment raises AttributeError
UpdateControl(msg) ==
    /\ carla_op # None
    /\ carla_op.update_control.pc = "idle"
    /\ Len(carla_op.received) < MaxUpdates
    /\ carla_op' = [carla_op EXCEPT
           !.received = Append(@, msg),
           !.raised = IF carla_op.control = None THEN [raised |-> "AttributeError"] ELSE @,
           !.update_control = IF carla_op.control = None THEN @
                              ELSE [pc |-> UpdateFields[1], msg |-> msg]]
    /\ UNCHANGED carlaRest

\* update_control, lines 320-324: the next of the five assignments
UpdateControlField ==
    /\ carla_op # None
    /\ \E k \in 1..Len(UpdateFields) :
           /\ carla_op.update_control.pc = UpdateFields[k]
           /\ carla_op' = [carla_op EXCEPT
                  !.control[UpdateFields[k]] = carla_op.update_control.msg[UpdateFields[k]],
                  !.update_control = IF k < Len(UpdateFields)
                                     THEN [@ EXCEPT !.pc = UpdateFields[k + 1]]
                                     ELSE [pc |-> "idle", msg |-> None]]
    /\ UNCHANGED carlaRest

NextCarla ==
    \/ Execute
    \/ \E measurements \in Measurements, sensor_data \in SensorData :
           ReadCarlaData(measurements, sensor_data)
    \/ SendControl
    \/ \E msg \in CarlaControlMessages : UpdateControl(msg)
    \/ UpdateControlField

SpecCarla == InitCarla /\ [][NextCarla]_vars

(***************************************************************************)
(* The pedestrian indices                                                  *)
(***************************************************************************)

\* the non-player agents of the readings so far
AgentsRead ==
    UNION {{carla_op.readings[k].measurements.non_player_agents[i] :
               i \in 1..Len(carla_op.readings[k].measurements.non_player_agents)} :
           k \in 1..Len(carla_op.readings)}

\* the ids of the agents read so far that have the given field
SeenWith(field) == {a.id : a \in {b \in AgentsRead : b.field = field}}

\* the pedestrians of the messages sent on the pedestrians stream
PedestriansSent ==
    UNION {{carla_op.streams["pedestrians"][i].data.list[j] :
               j \in 1..Len(carla_op.streams["pedestrians"][i].data.list)} :
           i \in {h \in 1..Len(carla_op.streams["pedestrians"]) :
                     ~carla_op.streams["pedestrians"][h].watermark}}

\* C34: across any sequence of reads the pedestrian index map is stable and
\* injective: an agent id keeps the index of its first appearance (every
\* Pedestrian ever sent carries the index the map holds now), distinct ids
\* have distinct indices, the indices are exactly 1..pedestrian_count, and
\* pedestrian_count is the number of pedestrian ids seen, so it grows by 1
\* per new pedestrian id and never for a vehicle, a light or a sign.
C34_PedestrianIndexMap ==
    carla_op # None =>
        LET map == carla_op.agent_id_map
        IN  /\ DOMAIN map = SeenWith("pedestrian")
            /\ carla_op.pedestrian_count = Cardinality(SeenWith("pedestrian"))
            /\ {map[id] : id \in DOMAIN map} = 1..carla_op.pedestrian_count
            /\ \A a, b \in DOMAIN map : map[a] = map[b] => a = b
            /\ \A p \in PedestriansSent : p.pedestrian_index = map[p.id]

\* two readings with the pedestrians 5, 3 and then 0, 3: pedestrian 3 is seen
\* again and keeps index 2, pedestrian 0 is new and gets index 3
C34_Witness ==
    /\ carla_op # None
    /\ Len(carla_op.readings) = MaxReads
    /\ carla_op.pedestrian_count = 3
    /\ DOMAIN carla_op.agent_id_map = {0, 3, 5}
    /\ carla_op.agent_id_map[3] = 2
    /\ carla_op.agent_id_map[0] = 3
    /\ SeenWith("vehicle") = {4, 7}

(***************************************************************************)
(* The messages of a read                                                  *)
(***************************************************************************)

\* the reads that send on the stream
ReadsOn(name) ==
    {k \in 1..Len(carla_op.readings) :
        name \in GroundStreams \/ name \in carla_op.readings[k].sensor_data}

\* the timestamp of read k
ReadTimestamp(k) ==
    Timestamp(<<carla_op.readings[k].measurements.game_timestamp, k - 1>>)

\* C35: in every read_carla_data step each output stream (can_bus, vehicles,
\* pedestrians, traffic_lights, traffic_signs and every sensor stream of the
\* reading) receives exactly one data message followed by one watermark with
\* the same timestamp; message_num grows by 1 per step, so the timestamps of
\* the steps differ; and the control of a step is sent to the simulator only
\* after the step's messages.
C35_OneMessagePerStream ==
    carla_op # None =>
        /\ carla_op.message_num = Len(carla_op.readings)
        /\ \A name \in CarlaStreams :
               LET stream == carla_op.streams[name]
               IN  /\ Len(stream) = 2 * Cardinality(ReadsOn(name))
                   /\ \A k \in ReadsOn(name) :
                          \E i \in 1..Len(stream) :
                              /\ i % 2 = 1
                              /\ ~stream[i].watermark
                              /\ stream[i].timestamp = ReadTimestamp(k)
                              /\ stream[i + 1] = WatermarkMessage(ReadTimestamp(k))
        /\ \A k, l \in 1..Len(carla_op.readings) :
               ReadTimestamp(k) = ReadTimestamp(l) => k = l
        /\ Len(carla_op.to_simulator) =
               IF carla_op.read_loop = "send_control"
               THEN Len(carla_op.readings) - 1 ELSE Len(carla_op.readings)

\* two reads at the same game time, the first with the camera only, the
\* second with all sensors, and both controls sent
C35_Witness ==
    /\ carla_op # None
    /\ Len(carla_op.readings) = MaxReads
    /\ Len(carla_op.to_simulator) = MaxReads
    /\ carla_op.readings[1].measurements.game_timestamp
           = carla_op.readings[2].measurements.game_timestamp
    /\ Len(carla_op.streams["front_rgb_camera"]) = 4
    /\ Len(carla_op.streams["front_lidar"]) = 2
    /\ Len(carla_op.streams["pedestrians"]) = 4

(***************************************************************************)
(* The control sent to the simulator                                       *)
(***************************************************************************)

\* C36: the control sent to the simulator in a step is the neutral control
\* until the first control message arrives and thereafter equals, in all five
\* fields, the most recently received control message; a step never sends a
\* mix of the fields of two control messages, and a control message arriving
\* before execute has set the control is not an error.
C36_ControlSentIsLastReceived ==
    carla_op # None =>
        /\ carla_op.raised = None
        /\ \A j \in 1..Len(carla_op.to_simulator) :
               LET call == carla_op.to_simulator[j]
               IN  call.control = IF call.received = 0 THEN NeutralControl
                                  ELSE carla_op.received[call.received]

(***************************************************************************)
(* Part 10: get_camera_intrinsic_and_transform called with a camera that   *)
(* is turned about each of its axes.                                       *)
(***************************************************************************)

\* image_size
SetupImageSizes == { ImageSize, <<1920, 1080>> }

\* position
SetupPositions == { <<2 * Fix, 0, (14 * Fix) \div 10>>, <<(3 * Fix) \div 10, 0, (13 * Fix) \div 10>> }

\* rotation_pitch, rotation_roll, rotation_yaw (degrees)
SetupAngles == {0, 30, 90}

InitSetup ==
    /\ setup_in \in [image_size : SetupImageSizes, position : SetupPositions,
                     rotation_pitch : SetupAngles, rotation_roll : SetupAngles,
                     rotation_yaw : SetupAngles]
    /\ setup_out = None
    /\ SimIdle
    /\ agent = None
    /\ cloud_in = None
    /\ cloud_out = None
    /\ box_in = None
    /\ box_out = None
    /\ mul_in = None
    /\ mul_out = None
    /\ ControllerIdle

\* the call
SetupApply ==
    /\ setup_in # None
    /\ setup_out = None
    /\ setup_out' = get_camera_intrinsic_and_transform(
                        setup_in.image_size, setup_in.position, setup_in.rotation_pitch,
                        setup_in.rotation_roll, setup_in.rotation_yaw)
    /\ UNCHANGED <<flags, tb_gain, tb_out, opVars, box_in, box_out, mul_in, mul_out, tick, cloud_in, cloud_out, agent, camera_driver, carla_op, setup_in>>

NextSetup == SetupApply

SpecSetup == InitSetup /\ [][NextSetup]_vars

\* C37: get_camera_intrinsic_and_transform passes each argument to the
\* Transform field of the same name: the camera pose it builds has
\* rotation.pitch = rotation_pitch, rotation.yaw = rotation_yaw and
\* rotation.roll = rotation_roll, and the axis-conversion transform it
\* composes with is built with scale x = -1.
C37_ArgumentsReachTheirFields ==
    setup_out # None =>
        /\ setup_out.transform.rotation.pitch = setup_in.rotation_pitch
        /\ setup_out.transform.rotation.yaw = setup_in.rotation_yaw
        /\ setup_out.transform.rotation.roll = setup_in.rotation_roll
        /\ setup_out.to_unreal_transform.matrix =
               MatrixOf(Location(0, 0, 0), 0, 0 - 90, 0 - 90, Scale(0 - 1, 1, 1))

====
